---- MODULE Spec2Model ----
(***************************************************************************)
(* The project search engine of the IG Publisher Manager (class IGSearch   *)
(* of search.js): the per-project search state store, the category         *)
(* resolver, the file walker and the matcher/ranker, over a small model of *)
(* the filesystem.                                                         *)
(*                                                                         *)
(* A JavaScript string is a sequence of one-character strings, a path is   *)
(* the sequence of its components, and the content of a file is the        *)
(* sequence of its lines (what content.split('\n') returns).               *)
(***************************************************************************)
EXTENDS Integers, Sequences, FiniteSets, TLC

VARIABLES
  disk,            \* the filesystem: the tree of directories and files
  searchStates,    \* IGSearch.searchStates: folder -> reference of a state object (0: no entry)
  heap,            \* the state objects: reference -> SearchState record (NoObject: unused)
  currentIgFolder, \* IGSearch.currentIgFolder (undefined until setCurrentIgFolder)
  call,            \* the performSearch call in progress or last completed, with its outcome
  op,              \* the operation performed last, and the folder it was given
  history,         \* per folder: the results of its last completed search, and
                   \* whether clearOutputResults ran since
  steps,           \* number of operations performed so far
  igList,          \* the renderer's igList: index -> the IG's folder and buildStatus
  selectedIgIndex, \* the renderer's selectedIgIndex
  buildProcesses,  \* the renderer's buildProcesses map: index -> process (0: no entry)
  setups,          \* index -> the startIgPublisherBuild calls of that IG that await
                   \* ensureJarExists
  processes        \* the IG Publisher processes spawned: the IG each was started
                   \* for, whether it runs, and the wasTerminated of its control

searchVars == <<disk, searchStates, heap, currentIgFolder, call, op, history, steps>>
buildVars  == <<igList, selectedIgIndex, buildProcesses, setups, processes>>

vars == <<disk, searchStates, heap, currentIgFolder, call, op, history, steps,
          igList, selectedIgIndex, buildProcesses, setups, processes>>

\* ------------------------------------------------------------------ bounds

\* number of files of the bulk page directory (more than maxResults)
BulkFiles == 201
\* number of lines of the bulk page file (more than maxResults)
BulkLines == 201
\* number of files in each of the two directories of the split tree
SplitFiles == 150
\* number of store operations in one run of the state store
MaxSteps == 3
\* number of IGs in the renderer's list
IgCount == 2
\* number of IG Publisher processes spawned in one run of the renderer
MaxProcesses == 2
\* number of build setups of one IG pending at a time
MaxSetups == 2
\* a result limit no search reaches: more than the lines of any tree
NoLimit == 100000

\* ------------------------------------------------------------------ text

Min(S) == CHOOSE x \in S : \A y \in S : x <= y
Max(S) == CHOOSE x \in S : \A y \in S : y <= x

UpperCase == <<"A","B","C","D","E","F","G","H","I","J","K","L","M","N","O","P","Q","R","S","T","U","V","W","X","Y","Z">>
LowerCase == <<"a","b","c","d","e","f","g","h","i","j","k","l","m","n","o","p","q","r","s","t","u","v","w","x","y","z">>
DigitChars == <<"0","1","2","3","4","5","6","7","8","9">>
Letters == {UpperCase[i] : i \in 1..26} \cup {LowerCase[i] : i \in 1..26}

\* String.prototype.toLowerCase, one character
toLowerCaseChar(c) ==
  IF \E i \in 1..26 : UpperCase[i] = c
    THEN LowerCase[CHOOSE i \in 1..26 : UpperCase[i] = c]
    ELSE c

toLowerCase(s) == [i \in 1..Len(s) |-> toLowerCaseChar(s[i])]

IsWhitespace(c) == c \in {" ", "\t", "\r"}

\* String.prototype.trim
trim(s) ==
  LET keep == {i \in 1..Len(s) : ~IsWhitespace(s[i])}
  IN  IF keep = {} THEN <<>> ELSE SubSeq(s, Min(keep), Max(keep))

\* String.prototype.startsWith
startsWith(s, prefix) ==
  Len(prefix) <= Len(s) /\ SubSeq(s, 1, Len(prefix)) = prefix

\* String.prototype.includes
includes(s, part) ==
  \E i \in 1..(Len(s) - Len(part) + 1) : SubSeq(s, i, i + Len(part) - 1) = part

\* the decimal digits of a natural number below 1000
decimal(n) ==
  (IF n >= 100 THEN <<DigitChars[(n \div 100) + 1]>> ELSE <<>>)
  \o (IF n >= 10 THEN <<DigitChars[((n \div 10) % 10) + 1]>> ELSE <<>>)
  \o <<DigitChars[(n % 10) + 1]>>

\* ------------------------------------------------- regular expressions

\* the characters of the class [.*+?^${}()|[\]\\] of createSearchPattern
MetaChars == {".", "*", "+", "?", "^", "$", "{", "}", "(", ")", "|", "[", "]", "\\"}

\* searchTerm.replace(/[.*+?^${}()|[\]\\]/g, '\\$&')
RECURSIVE escapeRegExp(_)
escapeRegExp(s) ==
  IF s = <<>> THEN <<>>
  ELSE (IF Head(s) \in MetaChars THEN <<"\\", Head(s)>> ELSE <<Head(s)>>)
       \o escapeRegExp(Tail(s))

\* The atoms of a pattern source: an escaped character is a literal, \b is
\* the word-boundary assertion, a bare '.' matches any character; any other
\* bare operator makes the source one the engine rejects.
RECURSIVE parseRegExp(_)
parseRegExp(src) ==
  IF src = <<>> THEN <<>>
  ELSE IF Head(src) = "\\"
    THEN IF Len(src) = 1
           THEN <<[t |-> "bad", c |-> "\\"]>>
           ELSE <<IF src[2] = "b" THEN [t |-> "wordb", c |-> "b"]
                                  ELSE [t |-> "lit", c |-> src[2]]>>
                \o parseRegExp(SubSeq(src, 3, Len(src)))
  ELSE IF Head(src) = "."
    THEN <<[t |-> "any", c |-> "."]>> \o parseRegExp(Tail(src))
  ELSE IF Head(src) \in MetaChars
    THEN <<[t |-> "bad", c |-> Head(src)]>> \o parseRegExp(Tail(src))
  ELSE <<[t |-> "lit", c |-> Head(src)]>> \o parseRegExp(Tail(src))

\* new RegExp(source, flags): a pattern object, or valid = FALSE where the
\* constructor throws a SyntaxError
RegExp(source, flags) ==
  LET atoms == parseRegExp(source)
  IN  [ valid      |-> \A i \in 1..Len(atoms) : atoms[i].t # "bad",
        source     |-> source,
        atoms      |-> atoms,
        global     |-> \E i \in 1..Len(flags) : flags[i] = "g",
        ignoreCase |-> \E i \in 1..Len(flags) : flags[i] = "i",
        lastIndex  |-> 0 ]

IsWordChar(c) ==
  c \in Letters \/ c = "_" \/ \E i \in 1..10 : DigitChars[i] = c

\* \b at offset k (between s[k] and s[k+1], offsets from 0)
wordBoundary(s, k) ==
  (k >= 1 /\ IsWordChar(s[k])) # (k < Len(s) /\ IsWordChar(s[k + 1]))

eqChar(a, b, ignoreCase) ==
  IF ignoreCase THEN toLowerCaseChar(a) = toLowerCaseChar(b) ELSE a = b

\* the offset after a match of atoms that starts at offset k, or -1
RECURSIVE matchAtoms(_, _, _, _)
matchAtoms(atoms, ignoreCase, s, k) ==
  IF atoms = <<>> THEN k
  ELSE LET a == Head(atoms)
       IN  IF a.t = "wordb"
             THEN IF wordBoundary(s, k)
                    THEN matchAtoms(Tail(atoms), ignoreCase, s, k)
                    ELSE -1
           ELSE IF k >= Len(s) THEN -1
           ELSE IF a.t = "any" \/ eqChar(a.c, s[k + 1], ignoreCase)
             THEN matchAtoms(Tail(atoms), ignoreCase, s, k + 1)
             ELSE -1

\* the leftmost match among the attempts ends[k] (the offset after a match
\* that starts at k, or -1)
leftmost(ends) ==
  LET hits == {k \in DOMAIN ends : ends[k] >= 0}
  IN  IF hits = {}
        THEN [index |-> -1, end |-> 0]
        ELSE [index |-> Min(hits), end |-> ends[Min(hits)]]

\* RegExp.prototype.exec from offset `from`: the leftmost match at or after it
regExpExec(pattern, s, from) ==
  leftmost([k \in from..Len(s) |->
              matchAtoms(pattern.atoms, pattern.ignoreCase, s, k)])

\* the start offsets of the successive non-overlapping matches from `from`;
\* m is the match found from `from`
RECURSIVE matchesFrom(_, _, _)
matchesAfter(pattern, s, m) ==
  IF m.index < 0 THEN <<>>
  ELSE <<m.index>>
       \o matchesFrom(pattern, s, IF m.end = m.index THEN m.end + 1 ELSE m.end)

matchesFrom(pattern, s, from) == matchesAfter(pattern, s, regExpExec(pattern, s, from))

\* [...line.matchAll(pattern)]: matchAll works on a copy of the pattern that
\* starts at the pattern's lastIndex
matchAll(line, pattern) == matchesFrom(pattern, line, pattern.lastIndex)

\* what test returns for the match m, and the lastIndex it leaves
testOutcome(pattern, m) ==
  [ result    |-> m.index >= 0,
    lastIndex |-> IF m.index >= 0 /\ pattern.global THEN m.end
                  ELSE IF pattern.global THEN 0
                  ELSE pattern.lastIndex ]

\* RegExp.prototype.test of a global pattern: searches from lastIndex and
\* moves lastIndex behind the match, or back to 0 when there is none
regExpTest(pattern, s) ==
  testOutcome(pattern, IF pattern.lastIndex > Len(s)
                         THEN [index |-> -1, end |-> 0]
                         ELSE regExpExec(pattern, s, pattern.lastIndex))

\* createSearchPattern without the escaping of the term
createSearchPatternRaw(searchTerm, caseSensitive, wholeWords) ==
  RegExp(IF wholeWords THEN <<"\\", "b">> \o searchTerm \o <<"\\", "b">> ELSE searchTerm,
         IF caseSensitive THEN <<"g">> ELSE <<"g","i">>)

\* createSearchPattern with the flags 'gi' whatever caseSensitive is
createSearchPatternIgnoreCase(searchTerm, caseSensitive, wholeWords) ==
  RegExp(IF wholeWords
           THEN <<"\\", "b">> \o escapeRegExp(searchTerm) \o <<"\\", "b">>
           ELSE escapeRegExp(searchTerm),
         <<"g","i">>)

\* createSearchPattern without the \b of wholeWords
createSearchPatternNoBoundary(searchTerm, caseSensitive, wholeWords) ==
  RegExp(escapeRegExp(searchTerm), IF caseSensitive THEN <<"g">> ELSE <<"g","i">>)

\* IGSearch.createSearchPattern
createSearchPattern(searchTerm, caseSensitive, wholeWords) ==
  LET escaped     == escapeRegExp(searchTerm)
      escapedTerm == IF wholeWords
                       THEN <<"\\", "b">> \o escaped \o <<"\\", "b">>
                       ELSE escaped
      flags       == IF caseSensitive THEN <<"g">> ELSE <<"g","i">>
  IN  RegExp(escapedTerm, flags)

\* ------------------------------------------------------------------ paths

\* the sum of f[lo..hi]
RECURSIVE sumRange(_, _, _)
sumRange(f, lo, hi) ==
  IF lo > hi THEN 0
  ELSE IF lo = hi THEN f[lo]
  ELSE LET mid == (lo + hi) \div 2
       IN  sumRange(f, lo, mid) + sumRange(f, mid + 1, hi)

\* the concatenation of the sequences f[lo..hi]
RECURSIVE concatRange(_, _, _)
concatRange(f, lo, hi) ==
  IF lo > hi THEN <<>>
  ELSE IF lo = hi THEN f[lo]
  ELSE LET mid == (lo + hi) \div 2
       IN  concatRange(f, lo, mid) \o concatRange(f, mid + 1, hi)

\* path.join(dir, name)
pathJoin(dir, name) == Append(dir, name)

\* path.basename(p)
basename(p) == IF p = <<>> THEN <<>> ELSE p[Len(p)]

\* path.extname applied to a file name: from its last '.', unless that is
\* its first character
extname(name) ==
  LET dots == {i \in 2..Len(name) : name[i] = "."}
  IN  IF dots = {} THEN <<>> ELSE SubSeq(name, Max(dots), Len(name))

\* the path as the string the program holds: '/' before every component
pathString(p) == concatRange([i \in 1..Len(p) |-> <<"/">> \o p[i]], 1, Len(p))

\* path.relative(from, to), as a sequence of components
relative(from, to) ==
  LET same   == {n \in 0..Len(from) :
                   n <= Len(to) /\ SubSeq(from, 1, n) = SubSeq(to, 1, n)}
      common == Max(same)
  IN  [i \in 1..(Len(from) - common) |-> <<".",".">>] \o SubSeq(to, common + 1, Len(to))

\* ------------------------------------------------------------- filesystem

n_ig            == <<"i","g">>
n_ig2           == <<"i","g","2">>
n_input         == <<"i","n","p","u","t">>
n_output        == <<"o","u","t","p","u","t">>
n_pagecontent   == <<"p","a","g","e","c","o","n","t","e","n","t">>
n_translations  == <<"t","r","a","n","s","l","a","t","i","o","n","s">>
n_fshGenerated  == <<"f","s","h","-","g","e","n","e","r","a","t","e","d">>
n_sushiConfig   == <<"s","u","s","h","i","-","c","o","n","f","i","g",".","y","a","m","l">>
n_nodeModules   == <<"n","o","d","e","_","m","o","d","u","l","e","s">>

\* the project folders (igFolder values) of every tree
Folders == {<<n_ig>>, <<n_ig2>>}

\* this.currentIgFolder before setCurrentIgFolder: undefined
NoFolder == <<>>

File(name, lines) ==
  [name |-> name, kind |-> "file", perm |-> "ok", lines |-> lines, entries |-> <<>>]

\* a file whose content cannot be read (readFileSync throws)
LockedFile(name, lines) ==
  [name |-> name, kind |-> "file", perm |-> "noread", lines |-> lines, entries |-> <<>>]

Dir(name, entries) ==
  [name |-> name, kind |-> "dir", perm |-> "ok", lines |-> <<>>, entries |-> entries]

NoNode ==
  [name |-> <<>>, kind |-> "none", perm |-> "ok", lines |-> <<>>, entries |-> <<>>]

l_cat      == <<"c","a","t">>
l_resource == <<"{","\"","r","e","s","o","u","r","c","e","T","y","p","e","\"",":","\"","P","a","t","i","e","n","t","\"",",">>

\* Tree 1: a built project /ig with every kind of location, and /ig2
SmallTree ==
  Dir(<<>>, <<
    Dir(n_ig, <<
      File(n_sushiConfig, <<<<"i","d",":"," ","c","a","t">>>>),
      Dir(n_input, <<
        File(<<"c","a","t","s",".","f","s","h">>, <<<<"P","r","o","f","i","l","e",":"," ","C","a","t">>, <<"*"," ","c","a","t"," ","c","a","t">>>>),
        File(<<"p","t",".","j","s","o","n">>, <<l_resource, <<" ","\"","i","d","\"",":","\"","c","a","t","\"","}">>>>),
        File(<<"l","i","s","t",".","j","s","o","n">>, <<<<"[","\"","c","a","t","\"","]">>>>),
        Dir(n_pagecontent, <<
          File(<<"i","n","t","r","o",".","m","d">>, <<<<"#"," ","I","n","t","r","o">>, <<>>, <<" "," ","a"," ","c","a","t",","," ","a"," ","C","a","t"," "," ">>>>),
          File(<<"c","a","t",".","m","d">>, <<<<"c","a","t","e","g","o","r","y">>>>),
          File(<<"d","o","g",".","m","d">>, <<<<"d","o","g">>>>) >>),
        Dir(n_translations, <<
          File(<<"d","e",".","t","x","t">>, <<<<"K","a","t","z","e","=","c","a","t">>>>),
          File(<<"f","r",".","j","s","o","n">>, <<l_resource, <<" ","\"","i","d","\"",":","\"","c","h","a","t","\"",","," ","\"","n","a","m","e","\"",":","\"","c","a","t","\"","}">>>>) >>),
        Dir(n_nodeModules, <<
          File(<<"d","e","p",".","f","s","h">>, <<l_cat>>) >>) >>),
      Dir(n_output, <<
        File(<<"c","a","t",".","h","t","m","l">>, <<l_cat, <<"<","b",">","c","a","t","<","/","b",">">>>>),
        File(<<"p","t",".","j","s","o","n">>, <<l_resource, <<" ","\"","i","d","\"",":","\"","c","a","t"," ","c","a","t","\"","}">>>>) >>) >>),
    Dir(n_ig2, <<
      Dir(n_input, <<
        Dir(n_pagecontent, <<
          File(<<"c","a","t",".","m","d">>, <<<<"C","a","t">>>>),
          File(<<"r","e",".","m","d">>, <<<<"x"," ","c",".","t"," ","y">>, <<"s","e","e"," ","(","c","a","t",")"," ","a","n","d"," ","c","o","n","c","a","t">>>>),
          File(<<"N","O","T","E","S",".","M","D">>, <<<<"d","o","g">>>>),
          Dir(<<"B","u","i","l","d">>, <<
            File(<<"t","m","p",".","m","d">>, <<l_cat>>) >>) >>) >>) >>) >>)

\* Tree 2: /ig was never built (no sushi-config.yaml, `output` is a file) and
\* has an unreadable page, an entry that cannot be stat-ed and a directory
\* that cannot be listed; /ig2 has only generated resources and output
PlainTree ==
  Dir(<<>>, <<
    Dir(n_ig, <<
      Dir(n_input, <<
        File(<<"x",".","f","s","h">>, <<<<"A","l","i","a","s",":"," ","c","a","t">>>>),
        Dir(n_pagecontent, <<
          File(<<"a",".","m","d">>, <<<<"c","a","t"," ","c","a","t"," ","c","a","t">>, <<"x">>>>),
          LockedFile(<<"b",".","m","d">>, <<l_cat>>),
          [name |-> <<"l","o","s","t",".","m","d">>, kind |-> "file", perm |-> "nostat",
           lines |-> <<l_cat>>, entries |-> <<>>],
          [name |-> <<"s","e","c","r","e","t">>, kind |-> "dir", perm |-> "noread", lines |-> <<>>,
           entries |-> << File(<<"s",".","m","d">>, <<l_cat>>) >>],
          File(<<"z",".","m","d">>, <<l_cat>>) >>) >>),
      File(n_output, <<l_cat>>) >>),
    Dir(n_ig2, <<
      Dir(n_fshGenerated, <<
        File(<<"g","e","n",".","j","s","o","n">>, <<l_resource, <<" ","\"","i","d","\"",":","\"","c","a","t","\"","}">>>>) >>),
      Dir(n_output, <<
        File(<<"c","a","t",".","h","t","m","l">>, <<l_cat, <<"<","i",">","c","a","t","<","/","i",">">>>>),
        File(<<"c","a","t","s",".","h","t","m","l">>, <<l_cat>>) >>) >>) >>)

\* Tree 3: BulkFiles pages of one matching line each
BulkFilesTree ==
  Dir(<<>>, <<
    Dir(n_ig, <<
      Dir(n_input, <<
        Dir(n_pagecontent,
            [i \in 1..BulkFiles |-> File(<<"p">> \o decimal(i) \o <<".","m","d">>, <<l_cat>>)]) >>) >>),
    Dir(n_ig2, <<>>) >>)

\* Tree 4: one page of BulkLines matching lines, and one translation
BulkLinesTree ==
  Dir(<<>>, <<
    Dir(n_ig, <<
      Dir(n_input, <<
        Dir(n_pagecontent, <<
          File(<<"b","i","g",".","m","d">>, [i \in 1..BulkLines |-> l_cat]) >>),
        Dir(n_translations, <<
          File(<<"t",".","t","x","t">>, <<l_cat>>) >>) >>) >>),
    Dir(n_ig2, <<>>) >>)

\* Tree 5: SplitFiles pages and SplitFiles built HTML pages, one matching line each
SplitTree ==
  Dir(<<>>, <<
    Dir(n_ig, <<
      Dir(n_input, <<
        Dir(n_pagecontent,
            [i \in 1..SplitFiles |-> File(<<"p">> \o decimal(i) \o <<".","m","d">>, <<l_cat>>)]) >>),
      Dir(n_output,
          [i \in 1..SplitFiles |-> File(<<"h">> \o decimal(i) \o <<".","h","t","m","l">>, <<l_cat>>)]) >>),
    Dir(n_ig2, <<>>) >>)

\* the trees of the state-store runs, and the bulk trees
SmallDisks == {SmallTree, PlainTree}
BulkDisks  == {BulkFilesTree, BulkLinesTree, SplitTree}

\* the node at path p of the tree d (NoNode when there is none)
RECURSIVE walk(_, _)
walk(node, p) ==
  IF p = <<>> THEN node
  ELSE IF node.kind # "dir" THEN NoNode
  ELSE IF \E i \in 1..Len(node.entries) : node.entries[i].name = Head(p)
    THEN walk(node.entries[CHOOSE i \in 1..Len(node.entries) :
                             node.entries[i].name = Head(p)], Tail(p))
    ELSE NoNode

nodeAt(d, p) == walk(d, p)

\* what the filesystem calls answer for the node n
nodeExists(n) == n.kind # "none" /\ n.perm # "nostat"
nodeStat(n) == [ok |-> nodeExists(n), isFile |-> n.kind = "file", isDirectory |-> n.kind = "dir"]
nodeListing(n) == IF n.kind = "dir" /\ n.perm = "ok"
                THEN [ok |-> TRUE, items |-> [i \in 1..Len(n.entries) |-> n.entries[i].name]]
                ELSE [ok |-> FALSE, items |-> <<>>]
nodeContent(n) == IF n.kind = "file" /\ n.perm = "ok"
                THEN [ok |-> TRUE, lines |-> n.lines]
                ELSE [ok |-> FALSE, lines |-> <<>>]

\* fs.existsSync: never throws
existsSync(d, p) == nodeExists(nodeAt(d, p))

\* fs.statSync: ok = FALSE where it throws
statSync(d, p) == nodeStat(nodeAt(d, p))

\* fs.readdirSync: the entry names, ok = FALSE where it throws
readdirSync(d, p) == nodeListing(nodeAt(d, p))

\* fs.readFileSync: the lines of the content, ok = FALSE where it throws
readFileSync(d, p) == nodeContent(nodeAt(d, p))

\* ---------------------------------------------------------------- IGSearch

c_fsh             == <<"f","s","h">>
c_inputResources  == <<"i","n","p","u","t","R","e","s","o","u","r","c","e","s">>
c_inputPages      == <<"i","n","p","u","t","P","a","g","e","s">>
c_translations    == <<"t","r","a","n","s","l","a","t","i","o","n","s">>
c_outputResources == <<"o","u","t","p","u","t","R","e","s","o","u","r","c","e","s">>
c_outputHtml      == <<"o","u","t","p","u","t","H","t","m","l">>
\* a key that is none of the six categories
c_outputLog       == <<"o","u","t","p","u","t","L","o","g">>

\* this.maxResults of the constructor
maxResults == 200

Range(s) == {s[i] : i \in 1..Len(s)}

\* JavaScript's null where a string may stand (the error field)
null == "<null>"

\* the null that searchInFile returns
Null == [null |-> TRUE]

\* one filesystem call of a search: the events of a call make its log
ev(kind, p) == <<[op |-> kind, path |-> p]>>

\* shouldSkipDirectory comparing the name as it is spelt
shouldSkipDirectoryExact(dirName) ==
  dirName \in { <<"n","o","d","e","_","m","o","d","u","l","e","s">>, <<".","g","i","t">>, <<".","s","v","n">>, <<".","h","g">>,
                <<"t","e","m","p">>, <<"i","n","p","u","t","-","c","a","c","h","e">>, <<"t","x","c","a","c","h","e">>,
                <<"b","i","n">>, <<"o","b","j">>, <<"t","a","r","g","e","t">>, <<"b","u","i","l","d">>, <<"d","i","s","t">>,
                <<".","v","s">>, <<".","v","s","c","o","d","e">>, <<".","i","d","e","a">> }

\* IGSearch.shouldSkipDirectory
shouldSkipDirectory(dirName) ==
  LET skipDirs == { <<"n","o","d","e","_","m","o","d","u","l","e","s">>, <<".","g","i","t">>, <<".","s","v","n">>, <<".","h","g">>,
                    <<"t","e","m","p">>, <<"i","n","p","u","t","-","c","a","c","h","e">>, <<"t","x","c","a","c","h","e">>,
                    <<"b","i","n">>, <<"o","b","j">>, <<"t","a","r","g","e","t">>, <<"b","u","i","l","d">>, <<"d","i","s","t">>,
                    <<".","v","s">>, <<".","v","s","c","o","d","e">>, <<".","i","d","e","a">> }
  IN  toLowerCase(dirName) \in skipDirs

\* the files and the filesystem calls of several parts, in order
merge(parts) ==
  [files |-> concatRange([i \in 1..Len(parts) |-> parts[i].files], 1, Len(parts)),
   log   |-> concatRange([i \in 1..Len(parts) |-> parts[i].log], 1, Len(parts))]

\* IGSearch.findFilesInPath: the files found, and the filesystem calls made
RECURSIVE findFilesInPath(_, _, _)

\* the body of the loop over the directory's items; itemStat is what
\* statSync answered for the item
visitItem(fullPath, item, itemStat, extensions, recursive) ==
  IF ~itemStat.ok
    THEN [files |-> <<>>, log |-> ev("stat", fullPath)]
  ELSE IF itemStat.isFile
    THEN [files |-> IF Len(extensions) = 0
                       \/ toLowerCase(extname(item)) \in Range(extensions)
                      THEN <<fullPath>> ELSE <<>>,
          log   |-> ev("stat", fullPath)]
  ELSE IF itemStat.isDirectory /\ recursive /\ ~shouldSkipDirectory(item)
    THEN merge(<<[files |-> <<>>, log |-> ev("stat", fullPath)],
                 findFilesInPath(fullPath, extensions, recursive)>>)
  ELSE [files |-> <<>>, log |-> ev("stat", fullPath)]

\* the loop over the items without the inner try: the first item that
\* cannot be stat-ed ends the listing of the directory
visitItemsAborting(dirPath, items, extensions, recursive) ==
  LET failing == { i \in 1..Len(items) : ~statSync(disk, pathJoin(dirPath, items[i])).ok }
      last    == IF failing = {} THEN Len(items) ELSE Min(failing) - 1
  IN  merge([i \in 1..last |->
               visitItem(pathJoin(dirPath, items[i]), items[i],
                         statSync(disk, pathJoin(dirPath, items[i])),
                         extensions, recursive)])

\* the loop over the items that readdirSync returned (none where it threw)
visitItems(dirPath, items, extensions, recursive) ==
  merge([i \in 1..Len(items) |->
           visitItem(pathJoin(dirPath, items[i]), items[i],
                     statSync(disk, pathJoin(dirPath, items[i])),
                     extensions, recursive)])

findFilesInPath(dirPath, extensions, recursive) ==
  IF ~existsSync(disk, dirPath)
    THEN [files |-> <<>>, log |-> ev("exists", dirPath)]
    ELSE merge(<<[files |-> <<>>,
                  log   |-> ev("exists", dirPath) \o ev("readdir", dirPath)],
                 visitItems(dirPath, readdirSync(disk, dirPath).items,
                            extensions, recursive)>>)

\* whether `part` occurs within the first `limit` characters of the content
\* whose lines are `lines` (content.substring(0, limit).includes(part)); the
\* line i starts at offset `offset`
RECURSIVE sampleIncludes(_, _, _, _, _)
sampleIncludes(lines, i, offset, part, limit) ==
  IF i > Len(lines) \/ offset >= limit THEN FALSE
  ELSE LET visible == SubSeq(lines[i], 1,
                             IF Len(lines[i]) <= limit - offset
                               THEN Len(lines[i]) ELSE limit - offset)
       IN  includes(visible, part)
           \/ sampleIncludes(lines, i + 1, offset + Len(lines[i]) + 1, part, limit)

\* IGSearch.isResourceFile
isResourceFile(filePath) ==
  LET ext     == toLowerCase(extname(basename(filePath)))
      content == readFileSync(disk, filePath)
  IN  IF ext = <<".","j","s","o","n">>
        THEN content.ok
             /\ sampleIncludes(content.lines, 1, 0, <<"\"","r","e","s","o","u","r","c","e","T","y","p","e","\"">>, 2000)
      ELSE IF ext = <<".","x","m","l">>
        THEN content.ok
             /\ (\/ sampleIncludes(content.lines, 1, 0, <<"x","m","l","n","s","=","\"","h","t","t","p",":","/","/","h","l","7",".","o","r","g","/","f","h","i","r","\"">>, 2000)
                 \/ sampleIncludes(content.lines, 1, 0, <<"h","t","t","p",":","/","/","h","l","7",".","o","r","g","/","f","h","i","r">>, 2000))
      ELSE ext = <<".","m","a","p">> \/ ext = <<".","t","t","l">>

\* the NUL byte of a binary file
NUL == "NUL"

\* IGSearch.isTextFile
isTextFile(filePath) ==
  LET ext == toLowerCase(extname(basename(filePath)))
      textExtensions == { <<".","t","x","t">>, <<".","m","d">>, <<".","j","s","o","n">>, <<".","x","m","l">>, <<".","h","t","m","l">>, <<".","c","s","s">>,
                          <<".","j","s">>, <<".","y","a","m","l">>, <<".","y","m","l">>, <<".","p","r","o","p","e","r","t","i","e","s">> }
      buffer == readFileSync(disk, filePath)
  IN  IF ext \in textExtensions THEN TRUE
      ELSE buffer.ok /\ ~sampleIncludes(buffer.lines, 1, 0, <<NUL>>, 512)

\* the filter of a search location, applied to a file
applyFilter(filter, filePath) ==
  CASE filter = "none"           -> TRUE
    [] filter = "sushiConfig"    -> basename(filePath) = n_sushiConfig
    [] filter = "isResourceFile" -> isResourceFile(filePath)
    [] filter = "isTextFile"     -> isTextFile(filePath)

\* whether applying the filter reads the file
filterReads(filter, filePath) ==
  LET ext == toLowerCase(extname(basename(filePath)))
  IN  CASE filter = "isResourceFile" -> ext \in {<<".","j","s","o","n">>, <<".","x","m","l">>}
        [] filter = "isTextFile"     ->
             ext \notin { <<".","t","x","t">>, <<".","m","d">>, <<".","j","s","o","n">>, <<".","x","m","l">>, <<".","h","t","m","l">>, <<".","c","s","s">>,
                          <<".","j","s">>, <<".","y","a","m","l">>, <<".","y","m","l">>, <<".","p","r","o","p","e","r","t","i","e","s">> }
        [] OTHER -> FALSE

\* IGSearch.getRelativePath, as a sequence of components
getRelativePath(filePath) ==
  IF currentIgFolder # NoFolder
     /\ startsWith(pathString(filePath), pathString(currentIgFolder))
    THEN relative(currentIgFolder, filePath)
    ELSE <<basename(filePath)>>

\* searchInFile numbering the lines from 0
lineMatchesZeroBased(lines, pattern) ==
  SelectSeq([lineNum \in 1..Len(lines) |->
               [lineNumber |-> lineNum - 1,
                line       |-> trim(lines[lineNum]),
                matchCount |-> Len(matchAll(lines[lineNum], pattern))]],
            LAMBDA m : m.matchCount > 0)

\* the matching lines of a file, as searchInFile collects them
lineMatches(lines, pattern) ==
  SelectSeq([lineNum \in 1..Len(lines) |->
               [lineNumber |-> lineNum,
                line       |-> trim(lines[lineNum]),
                matchCount |-> Len(matchAll(lines[lineNum], pattern))]],
            LAMBDA m : m.matchCount > 0)

\* searchInFile returning a FileMatchResult for every file it reads
fileMatchResultAlways(filePath, category, matches) ==
  [filePath     |-> filePath,
   fileName     |-> basename(filePath),
   relativePath |-> getRelativePath(filePath),
   category     |-> category,
   matches      |-> matches,
   totalMatches |-> sumRange([i \in 1..Len(matches) |-> matches[i].matchCount],
                             1, Len(matches))]

\* what searchInFile returns for the matching lines it collected
fileMatchResult(filePath, category, matches) ==
  IF Len(matches) > 0
    THEN [filePath     |-> filePath,
          fileName     |-> basename(filePath),
          relativePath |-> getRelativePath(filePath),
          category     |-> category,
          matches      |-> matches,
          totalMatches |-> sumRange([i \in 1..Len(matches) |-> matches[i].matchCount],
                                    1, Len(matches))]
    ELSE Null

\* IGSearch.searchInFile: the FileMatchResult or Null (also where the read throws)
searchInFile(filePath, pattern, category) ==
  fileMatchResult(filePath, category,
                  lineMatches(readFileSync(disk, filePath).lines, pattern))

\* getCategoryPaths returning every configured location, existing or not
getCategoryPathsUnfiltered(igFolder, categoryName) ==
  LET resourceExtensions == <<<<".","j","s","o","n">>, <<".","x","m","l">>, <<".","m","a","p">>, <<".","t","t","l">>>>
      fshGeneratedPath   == pathJoin(igFolder, n_fshGenerated)
      paths ==
        CASE categoryName = c_fsh ->
               << [path |-> igFolder, extensions |-> <<<<".","y","a","m","l">>>>,
                   recursive |-> FALSE, filter |-> "sushiConfig"],
                  [path |-> pathJoin(igFolder, n_input), extensions |-> <<<<".","f","s","h">>>>,
                   recursive |-> TRUE, filter |-> "none"] >>
          [] categoryName = c_inputResources ->
               << [path |-> pathJoin(igFolder, n_input), extensions |-> resourceExtensions,
                   recursive |-> TRUE, filter |-> "isResourceFile"] >>
               \o (IF existsSync(disk, fshGeneratedPath)
                     THEN << [path |-> fshGeneratedPath, extensions |-> resourceExtensions,
                              recursive |-> TRUE, filter |-> "isResourceFile"] >>
                     ELSE <<>>)
          [] categoryName = c_inputPages ->
               << [path |-> pathJoin(pathJoin(igFolder, n_input), n_pagecontent),
                   extensions |-> <<>>, recursive |-> TRUE, filter |-> "none"] >>
          [] categoryName = c_translations ->
               << [path |-> pathJoin(pathJoin(igFolder, n_input), n_translations),
                   extensions |-> <<>>, recursive |-> TRUE, filter |-> "isTextFile"] >>
          [] categoryName = c_outputResources ->
               << [path |-> pathJoin(igFolder, n_output), extensions |-> <<<<".","j","s","o","n">>>>,
                   recursive |-> TRUE, filter |-> "isResourceFile"] >>
          [] categoryName = c_outputHtml ->
               << [path |-> pathJoin(igFolder, n_output), extensions |-> <<<<".","h","t","m","l">>>>,
                   recursive |-> TRUE, filter |-> "none"] >>
          [] OTHER -> <<>>
  IN  [paths |-> paths,
       log   |-> (IF categoryName = c_inputResources
                    THEN ev("exists", fshGeneratedPath) ELSE <<>>)
                 \o concatRange([i \in 1..Len(paths) |-> ev("exists", paths[i].path)],
                                1, Len(paths))]

\* IGSearch.getCategoryPaths: the configured locations that exist
getCategoryPaths(igFolder, categoryName) ==
  LET resourceExtensions == <<<<".","j","s","o","n">>, <<".","x","m","l">>, <<".","m","a","p">>, <<".","t","t","l">>>>
      fshGeneratedPath   == pathJoin(igFolder, n_fshGenerated)
      paths ==
        CASE categoryName = c_fsh ->
               << [path |-> igFolder, extensions |-> <<<<".","y","a","m","l">>>>,
                   recursive |-> FALSE, filter |-> "sushiConfig"],
                  [path |-> pathJoin(igFolder, n_input), extensions |-> <<<<".","f","s","h">>>>,
                   recursive |-> TRUE, filter |-> "none"] >>
          [] categoryName = c_inputResources ->
               << [path |-> pathJoin(igFolder, n_input), extensions |-> resourceExtensions,
                   recursive |-> TRUE, filter |-> "isResourceFile"] >>
               \o (IF existsSync(disk, fshGeneratedPath)
                     THEN << [path |-> fshGeneratedPath, extensions |-> resourceExtensions,
                              recursive |-> TRUE, filter |-> "isResourceFile"] >>
                     ELSE <<>>)
          [] categoryName = c_inputPages ->
               << [path |-> pathJoin(pathJoin(igFolder, n_input), n_pagecontent),
                   extensions |-> <<>>, recursive |-> TRUE, filter |-> "none"] >>
          [] categoryName = c_translations ->
               << [path |-> pathJoin(pathJoin(igFolder, n_input), n_translations),
                   extensions |-> <<>>, recursive |-> TRUE, filter |-> "isTextFile"] >>
          [] categoryName = c_outputResources ->
               << [path |-> pathJoin(igFolder, n_output), extensions |-> <<<<".","j","s","o","n">>>>,
                   recursive |-> TRUE, filter |-> "isResourceFile"] >>
          [] categoryName = c_outputHtml ->
               << [path |-> pathJoin(igFolder, n_output), extensions |-> <<<<".","h","t","m","l">>>>,
                   recursive |-> TRUE, filter |-> "none"] >>
          [] OTHER -> <<>>
  IN  [paths |-> SelectSeq(paths, LAMBDA pathConfig : existsSync(disk, pathConfig.path)),
       log   |-> (IF categoryName = c_inputResources
                    THEN ev("exists", fshGeneratedPath) ELSE <<>>)
                 \o concatRange([i \in 1..Len(paths) |-> ev("exists", paths[i].path)],
                                1, Len(paths))]

\* acc with the outcome of searchInFile for one file that passed the filter
addFile(acc, filePath, probe, fileResults) ==
  [results |-> IF fileResults # Null THEN Append(acc.results, fileResults)
                                     ELSE acc.results,
   log     |-> acc.log \o probe \o ev("read", filePath)]

\* the body of the loop over the files of one location in searchCategory;
\* acc holds the results collected and the filesystem calls made so far, and
\* nothing is done once maxRes results are collected (the loop has ended)
scanFile(filePath, searchConfig, pattern, categoryName, maxRes, acc) ==
  IF Len(acc.results) >= maxRes THEN acc
  ELSE IF ~applyFilter(searchConfig.filter, filePath)
    THEN [acc EXCEPT !.log = @ \o (IF filterReads(searchConfig.filter, filePath)
                                     THEN ev("read", filePath) ELSE <<>>)]
    ELSE addFile(acc, filePath,
                 IF filterReads(searchConfig.filter, filePath)
                   THEN ev("read", filePath) ELSE <<>>,
                 searchInFile(filePath, pattern, categoryName))

\* the loop over files[lo..hi] of one location in searchCategory
RECURSIVE scanFiles(_, _, _, _, _, _, _, _)
scanFiles(files, lo, hi, searchConfig, pattern, categoryName, maxRes, acc) ==
  IF lo > hi \/ Len(acc.results) >= maxRes THEN acc
  ELSE IF lo = hi
    THEN scanFile(files[lo], searchConfig, pattern, categoryName, maxRes, acc)
  ELSE scanFiles(files, ((lo + hi) \div 2) + 1, hi, searchConfig, pattern,
                 categoryName, maxRes,
                 scanFiles(files, lo, (lo + hi) \div 2, searchConfig, pattern,
                           categoryName, maxRes, acc))

\* the files found in one location, searched; acc has the existence test logged
scanFound(found, searchConfig, pattern, categoryName, maxRes, acc) ==
  scanFiles(found.files, 1, Len(found.files), searchConfig, pattern, categoryName,
            maxRes, [acc EXCEPT !.log = @ \o found.log])

\* the loop over the locations in searchCategory
RECURSIVE scanPaths(_, _, _, _, _, _)
scanPaths(searchPaths, k, pattern, categoryName, maxRes, acc) ==
  IF k > Len(searchPaths) \/ Len(acc.results) >= maxRes THEN acc
  ELSE IF ~existsSync(disk, searchPaths[k].path)
    THEN scanPaths(searchPaths, k + 1, pattern, categoryName, maxRes,
                   [acc EXCEPT !.log = @ \o ev("exists", searchPaths[k].path)])
    ELSE scanPaths(searchPaths, k + 1, pattern, categoryName, maxRes,
           scanFound(findFilesInPath(searchPaths[k].path, searchPaths[k].extensions,
                                     searchPaths[k].recursive),
                     searchPaths[k], pattern, categoryName, maxRes,
                     [acc EXCEPT !.log = @ \o ev("exists", searchPaths[k].path)]))

\* the search of the locations that getCategoryPaths returned
scanCategoryPaths(searchPaths, pattern, categoryName, maxRes) ==
  scanPaths(searchPaths.paths, 1, pattern, categoryName, maxRes,
            [results |-> <<>>, log |-> searchPaths.log])

\* searchCategory paying no attention to its budget
searchCategoryUnlimited(igFolder, categoryName, pattern, maxRes) ==
  scanCategoryPaths(getCategoryPaths(igFolder, categoryName), pattern, categoryName,
                    NoLimit)

\* IGSearch.searchCategory: the results of the category, and the filesystem calls
searchCategory(igFolder, categoryName, pattern, maxRes) ==
  scanCategoryPaths(getCategoryPaths(igFolder, categoryName), pattern, categoryName, maxRes)

\* the value the comparator returns, and the pattern object as the two
\* test calls leave it
compareOutcome(a, b, pattern, aFileMatch, bFileMatch) ==
  [order   |-> IF aFileMatch.result /\ ~bFileMatch.result THEN -1
               ELSE IF ~aFileMatch.result /\ bFileMatch.result THEN 1
               ELSE Len(b.matches) - Len(a.matches),
   pattern |-> [pattern EXCEPT !.lastIndex = bFileMatch.lastIndex]]

\* the second test call of the comparator, on the pattern as the first left it
compareSecond(a, b, pattern, aFileMatch) ==
  compareOutcome(a, b, pattern, aFileMatch,
                 regExpTest([pattern EXCEPT !.lastIndex = aFileMatch.lastIndex],
                            basename(b.filePath)))

\* the comparator of results.sort in performSearch
compareResults(a, b, pattern) ==
  compareSecond(a, b, pattern, regExpTest(pattern, basename(a.filePath)))

\* Array.prototype.sort as binary insertion (the engine's sort of a short
\* array): the place of `pivot` among arr[1..right], found by bisection
RECURSIVE insertionPoint(_, _, _, _, _)

\* one bisection step, on the comparison c of the pivot with arr[mid + 1]
bisect(arr, pivot, left, mid, right, c) ==
  IF c.order < 0
    THEN insertionPoint(arr, pivot, left, mid, c.pattern)
    ELSE insertionPoint(arr, pivot, mid + 1, right, c.pattern)

insertionPoint(arr, pivot, left, right, pattern) ==
  IF left >= right THEN [pos |-> left, pattern |-> pattern]
  ELSE bisect(arr, pivot, left, left + ((right - left) \div 2), right,
              compareResults(pivot, arr[left + ((right - left) \div 2) + 1], pattern))

\* arr with arr[start + 1] moved to its place at.pos among arr[1..start],
\* and the pattern object as the comparisons left it
placed(arr, start, at) ==
  [arr     |-> SubSeq(arr, 1, at.pos) \o <<arr[start + 1]>>
               \o SubSeq(arr, at.pos + 1, start)
               \o SubSeq(arr, start + 2, Len(arr)),
   pattern |-> at.pattern]

\* one step of the sort: the element arr[start + 1] finds its place
insertionStep(st, start) ==
  placed(st.arr, start, insertionPoint(st.arr, st.arr[start + 1], 0, start, st.pattern))

\* the steps lo..hi of the sort, in order
RECURSIVE insertionSort(_, _, _)
insertionSort(st, lo, hi) ==
  IF lo > hi \/ Len(st.arr) < 2 THEN st
  ELSE IF lo = hi THEN insertionStep(st, lo)
  ELSE insertionSort(insertionSort(st, lo, (lo + hi) \div 2), ((lo + hi) \div 2) + 1, hi)

\* results.sort((a, b) => ...) of performSearch
sortResults(results, pattern) ==
  insertionSort([arr |-> results, pattern |-> pattern], 1, Len(results) - 1).arr

\* the search term argument: a string, or a value of another type
stringTerm(chars) == [type |-> "string", chars |-> chars, num |-> 0]
numberTerm(n)     == [type |-> "number", chars |-> <<>>, num |-> n]
undefinedTerm     == [type |-> "undefined", chars |-> <<>>, num |-> 0]
nullTerm          == [type |-> "null", chars |-> <<>>, num |-> 0]

\* !searchTerm
falsy(searchTerm) ==
  \/ searchTerm.type \in {"undefined", "null"}
  \/ searchTerm.type = "string" /\ searchTerm.chars = <<>>
  \/ searchTerm.type = "number" /\ searchTerm.num = 0

\* the categories value of the options: an object with its entries in
\* insertion order, or undefined, null or a number
categoriesObject(entries) == [kind |-> "object", entries |-> entries]
categoriesOf(kind)        == [kind |-> kind, entries |-> <<>>]

\* the options argument: an object, or undefined (argument omitted) or null
optionsObject(caseSensitive, wholeWords, categories) ==
  [kind |-> "object", caseSensitive |-> caseSensitive, wholeWords |-> wholeWords,
   categories |-> categories]
optionsOf(kind) ==
  [kind |-> kind, caseSensitive |-> FALSE, wholeWords |-> FALSE,
   categories |-> categoriesOf("undefined")]

\* how a call ends: with a returned value, or with an exception (the
\* promise of the async function is rejected)
Returned(value, log) == [threw |-> FALSE, exception |-> "none", value |-> value, log |-> log]
Thrown(exception)    == [threw |-> TRUE, exception |-> exception, value |-> Null, log |-> <<>>]

\* the results, the match total and the filesystem calls so far, with those
\* of one more category
addCategory(acc, categoryResults) ==
  [results      |-> acc.results \o categoryResults.results,
   totalMatches |-> acc.totalMatches
                    + sumRange([i \in 1..Len(categoryResults.results) |->
                                  Len(categoryResults.results[i].matches)],
                               1, Len(categoryResults.results)),
   log          |-> acc.log \o categoryResults.log]

\* console.log(`Searching category: ${categoryName}`): the search of a
\* category begins
entering(acc, categoryName) ==
  [acc EXCEPT !.log = @ \o ev("category", <<categoryName>>)]

\* the loop over Object.entries(categories) without the break at the limit
RECURSIVE scanCategoriesNoBreak(_, _, _, _, _, _)
scanCategoriesNoBreak(igFolder, entries, k, pattern, limit, acc) ==
  IF k > Len(entries) THEN acc
  ELSE IF ~entries[k].enabled
    THEN scanCategoriesNoBreak(igFolder, entries, k + 1, pattern, limit, acc)
  ELSE scanCategoriesNoBreak(igFolder, entries, k + 1, pattern, limit,
         addCategory(entering(acc, entries[k].name),
                     searchCategory(igFolder, entries[k].name, pattern,
                                    limit - acc.totalMatches)))

\* the loop over Object.entries(categories) with no test of the flag: every
\* entry is searched
RECURSIVE scanCategoriesAll(_, _, _, _, _, _)
scanCategoriesAll(igFolder, entries, k, pattern, limit, acc) ==
  IF k > Len(entries) THEN acc
  ELSE IF acc.totalMatches >= limit THEN acc
  ELSE scanCategoriesAll(igFolder, entries, k + 1, pattern, limit,
         addCategory(entering(acc, entries[k].name),
                     searchCategory(igFolder, entries[k].name, pattern,
                                    limit - acc.totalMatches)))

\* the loop over Object.entries(categories) in performSearch; limit is
\* this.maxResults
RECURSIVE scanCategories(_, _, _, _, _, _)
scanCategories(igFolder, entries, k, pattern, limit, acc) ==
  IF k > Len(entries) THEN acc
  ELSE IF ~entries[k].enabled
    THEN scanCategories(igFolder, entries, k + 1, pattern, limit, acc)
  ELSE IF acc.totalMatches >= limit THEN acc
  ELSE scanCategories(igFolder, entries, k + 1, pattern, limit,
         addCategory(entering(acc, entries[k].name),
                     searchCategory(igFolder, entries[k].name, pattern,
                                    limit - acc.totalMatches)))

\* the value performSearch returns after the loop: the sorted results cut
\* to the limit
searchResult(results, totalMatches, limit) ==
  [results      |-> SubSeq(results, 1,
                           IF Len(results) <= limit THEN Len(results) ELSE limit),
   totalMatches |-> totalMatches,
   error        |-> null,
   truncated    |-> totalMatches > limit]

\* the sort and the return of performSearch, on what the loop collected
rank(scanned, pattern, limit) ==
  Returned(searchResult(sortResults(scanned.results, pattern),
                        scanned.totalMatches, limit),
           scanned.log)

\* the try block of performSearch once the pattern is made
searchWith(igFolder, pattern, categories, limit) ==
  IF ~pattern.valid
    THEN Returned([results |-> <<>>, totalMatches |-> 0,
                   error |-> "Invalid regular expression"], <<>>)
  ELSE IF categories.kind = "null"
    THEN Returned([results |-> <<>>, totalMatches |-> 0,
                   error |-> "Cannot convert undefined or null to object"], <<>>)
  ELSE rank(scanCategories(igFolder, categories.entries, 1, pattern, limit,
                           [results |-> <<>>, totalMatches |-> 0, log |-> <<>>]),
            pattern, limit)

\* the try block of performSearch: the search proper, its ranking and its
\* result, or the result of the catch clause; limit is this.maxResults
searchAndRank(igFolder, searchTerm, caseSensitive, wholeWords, categories, limit) ==
  searchWith(igFolder, createSearchPattern(searchTerm, caseSensitive, wholeWords),
             categories, limit)

\* the categories of the destructured options: {} when the property is undefined
categoriesOrDefault(options) ==
  IF options.categories.kind = "undefined"
    THEN categoriesObject(<<>>) ELSE options.categories

\* performSearch with no cap on the results (this.maxResults never set)
performSearchUncapped(igFolder, searchTerm, options) ==
  IF options.kind = "null"
    THEN Thrown("TypeError: Cannot destructure property 'caseSensitive' of 'options' as it is null.")
  ELSE IF falsy(searchTerm)
    THEN Returned([results |-> <<>>, totalMatches |-> 0, error |-> null], <<>>)
  ELSE IF searchTerm.type # "string"
    THEN Thrown("TypeError: searchTerm.trim is not a function")
  ELSE IF trim(searchTerm.chars) = <<>>
    THEN Returned([results |-> <<>>, totalMatches |-> 0, error |-> null], <<>>)
  ELSE searchAndRank(igFolder, searchTerm.chars, options.caseSensitive,
                     options.wholeWords, categoriesOrDefault(options), NoLimit)

\* performSearch with the early return for !searchTerm only (no trim test)
performSearchUntrimmed(igFolder, searchTerm, options) ==
  IF options.kind = "null"
    THEN Thrown("TypeError: Cannot destructure property 'caseSensitive' of 'options' as it is null.")
  ELSE IF falsy(searchTerm)
    THEN Returned([results |-> <<>>, totalMatches |-> 0, error |-> null], <<>>)
  ELSE IF searchTerm.type # "string"
    THEN Thrown("TypeError: searchTerm.trim is not a function")
  ELSE searchAndRank(igFolder, searchTerm.chars, options.caseSensitive,
                     options.wholeWords, categoriesOrDefault(options), maxResults)

\* IGSearch.performSearch: how the call ends, and the filesystem calls it made
performSearch(igFolder, searchTerm, options) ==
  IF options.kind = "null"
    THEN Thrown("TypeError: Cannot destructure property 'caseSensitive' of 'options' as it is null.")
  ELSE IF falsy(searchTerm)
    THEN Returned([results |-> <<>>, totalMatches |-> 0, error |-> null], <<>>)
  ELSE IF searchTerm.type # "string"
    THEN Thrown("TypeError: searchTerm.trim is not a function")
  ELSE IF trim(searchTerm.chars) = <<>>
    THEN Returned([results |-> <<>>, totalMatches |-> 0, error |-> null], <<>>)
  ELSE searchAndRank(igFolder, searchTerm.chars, options.caseSensitive,
                     options.wholeWords, categoriesOrDefault(options), maxResults)

\* ------------------------------------------------------------ state store

MaxObjects == 3
ObjectIds == 1..MaxObjects

\* an unused slot of the heap
NoObject == [free |-> TRUE]

category(name, enabled) == [name |-> name, enabled |-> enabled]

\* the categories literal of getSearchState
DefaultCategories ==
  << category(c_fsh, TRUE), category(c_inputResources, TRUE),
     category(c_inputPages, TRUE), category(c_translations, TRUE),
     category(c_outputResources, FALSE), category(c_outputHtml, FALSE) >>

\* the state literal of getSearchState (lastSearchTime 0: null)
DefaultState ==
  [searchTerm |-> <<>>, caseSensitive |-> FALSE, wholeWords |-> FALSE,
   categories |-> DefaultCategories, results |-> <<>>, lastSearchTime |-> 0]

\* the engine object: the map of the folders' state objects, and the objects
this == [searchStates |-> searchStates, heap |-> heap]

\* a reference for the next object literal
newObject(self) == Min({o \in ObjectIds : self.heap[o] = NoObject})

\* getSearchState handing out one state object for all folders: a folder
\* without an entry gets the object of a folder that has one
getSearchStateShared(self, igFolder) ==
  IF self.searchStates[igFolder] = 0
    THEN IF \E f \in Folders : self.searchStates[f] # 0
           THEN LET shared == self.searchStates[CHOOSE f \in Folders :
                                                  self.searchStates[f] # 0]
                IN  [self  |-> [self EXCEPT !.searchStates[igFolder] = shared],
                     state |-> shared]
           ELSE LET o == newObject(self)
                IN  [self  |-> [searchStates |-> [self.searchStates EXCEPT ![igFolder] = o],
                                heap         |-> [self.heap EXCEPT ![o] = DefaultState]],
                     state |-> o]
    ELSE [self |-> self, state |-> self.searchStates[igFolder]]

\* getSearchState storing a new default state on every call
getSearchStateFresh(self, igFolder) ==
  LET o == newObject(self)
  IN  [self  |-> [searchStates |-> [self.searchStates EXCEPT ![igFolder] = o],
                  heap         |-> [self.heap EXCEPT ![o] = DefaultState]],
       state |-> o]

\* IGSearch.getSearchState: the engine after the call, and the state returned
getSearchState(self, igFolder) ==
  IF self.searchStates[igFolder] = 0
    THEN LET o == newObject(self)
         IN  [self  |-> [searchStates |-> [self.searchStates EXCEPT ![igFolder] = o],
                         heap         |-> [self.heap EXCEPT ![o] = DefaultState]],
              state |-> o]
    ELSE [self |-> self, state |-> self.searchStates[igFolder]]

\* IGSearch.saveSearchState
saveSearchState(self, igFolder, state) ==
  [self EXCEPT !.searchStates[igFolder] = state]

\* clearOutputResults dropping every stored result
clearAllResults(self, igFolder) ==
  LET got == getSearchState(self, igFolder)
  IN  saveSearchState([got.self EXCEPT !.heap[got.state].results = <<>>],
                      igFolder, got.state)

\* IGSearch.clearOutputResults
clearOutputResults(self, igFolder) ==
  LET got     == getSearchState(self, igFolder)
      state   == got.state
      results == SelectSeq(got.self.heap[state].results,
                           LAMBDA result : ~startsWith(result.category, <<"o","u","t","p","u","t">>))
  IN  saveSearchState([got.self EXCEPT !.heap[state].results = results],
                      igFolder, state)

\* objects no folder refers to are garbage
collect(self) ==
  [self EXCEPT !.heap = [o \in ObjectIds |->
      IF \E f \in Folders : self.searchStates[f] = o THEN self.heap[o] ELSE NoObject]]


\* the availability literal with the flags the probes set
availabilityOf(fsh, output) ==
  [fsh |-> fsh, inputResources |-> TRUE, inputPages |-> TRUE, translations |-> TRUE,
   outputResources |-> output, outputHtml |-> output]

\* getCategoryAvailability setting the output flags as soon as `output` exists
getCategoryAvailabilityNoStat(igFolder, statThrows) ==
  Returned(availabilityOf(existsSync(disk, pathJoin(igFolder, n_sushiConfig)),
                          existsSync(disk, pathJoin(igFolder, n_output))), <<>>)

\* IGSearch.getCategoryAvailability: the availability object and the
\* console.log of the catch block
getCategoryAvailability(igFolder, statThrows) ==
  LET fsh        == existsSync(disk, pathJoin(igFolder, n_sushiConfig))
      outputPath == pathJoin(igFolder, n_output)
  IN  IF ~existsSync(disk, outputPath)
        THEN Returned(availabilityOf(fsh, FALSE), <<>>)
      ELSE IF statThrows \/ ~statSync(disk, outputPath).ok
        THEN Returned(availabilityOf(fsh, FALSE),
                      ev("console.log", <<"E","r","r","o","r"," ","c","h","e","c","k","i","n","g"," ","c","a","t","e","g","o","r","y"," ","a","v","a","i","l","a","b","i","l","i","t","y",":">>))
      ELSE Returned(availabilityOf(fsh, statSync(disk, outputPath).isDirectory), <<>>)

\* --------------------------------------------------- the renderer's builds

\* the indexes of igList (JavaScript counts from 0) and the processes of a run
IgIndexes  == 0..(IgCount - 1)
ProcessIds == 1..MaxProcesses

\* the renderer once its list of IGs is loaded and shown: the first row is
\* selected, nothing is being built
RendererInit ==
  /\ igList = [i \in IgIndexes |->
                 [folder |-> IF i = 0 THEN <<n_ig>> ELSE <<n_ig2>>, buildStatus |-> "none"]]
  /\ selectedIgIndex = 0
  /\ buildProcesses = [i \in IgIndexes |-> 0]
  /\ setups = [i \in IgIndexes |-> 0]
  /\ processes = [p \in ProcessIds |-> [ig |-> -1, state |-> "none", wasTerminated |-> FALSE]]
\* ------------------------------------------------------------------ inputs

NoCall ==
  [status |-> "none", at |-> 0, igFolder |-> NoFolder, searchTerm |-> undefinedTerm,
   options |-> optionsOf("undefined"), outcome |-> Thrown("none")]

NoOp == [name |-> "none", igFolder |-> NoFolder, fault |-> FALSE, returned |-> Thrown("none")]

NoHistory == [searched |-> FALSE, results |-> <<>>, cleared |-> FALSE]

PagesAndHtml ==
  << category(c_inputPages, TRUE), category(c_fsh, FALSE), category(c_outputHtml, TRUE) >>

\* the search terms and options of the state-store runs
StoreTerms   == {stringTerm(l_cat), stringTerm(<<" "," ">>), stringTerm(<<>>)}
StoreOptions ==
  { optionsOf("undefined"), optionsOf("null"),
    optionsObject(FALSE, FALSE, categoriesObject(PagesAndHtml)),
    optionsObject(TRUE, TRUE, categoriesObject(DefaultCategories)) }

\* the categories a caller toggles in the state-store runs
ToggleCategories == {c_fsh, c_outputHtml}

\* ----------------------------------------------------------------- actions

\* the operation a step runs, the fault its filesystem probe meets and what it
\* returns to the caller
StepReturning(name, igFolder, fault, returned) ==
  /\ steps < MaxSteps
  /\ steps' = steps + 1
  /\ op' = [name |-> name, igFolder |-> igFolder, fault |-> fault, returned |-> returned]
  /\ UNCHANGED buildVars

Step(name, igFolder) == StepReturning(name, igFolder, FALSE, Thrown("none"))

Store(self) ==
  /\ searchStates' = collect(self).searchStates
  /\ heap' = collect(self).heap

\* a caller asks for the state of a folder
GetSearchState(igFolder) ==
  /\ Step("getSearchState", igFolder)
  /\ Store(getSearchState(this, igFolder).self)
  /\ UNCHANGED <<disk, currentIgFolder, call, history>>

\* a caller changes one categories flag of the state of a folder, in place
SetCategory(igFolder, name, enabled) ==
  LET got   == getSearchState(this, igFolder)
      state == got.state
      k     == CHOOSE i \in 1..Len(got.self.heap[state].categories) :
                 got.self.heap[state].categories[i].name = name
  IN  /\ \E i \in 1..Len(got.self.heap[state].categories) :
            got.self.heap[state].categories[i].name = name
      /\ Step("setCategory", igFolder)
      /\ Store([got.self EXCEPT !.heap[state].categories[k].enabled = enabled])
      /\ UNCHANGED <<disk, currentIgFolder, call, history>>

\* a caller stores the configuration and the results of the folder's search
\* that completed last as the folder's new state
SaveSearchState(igFolder) ==
  LET o     == newObject(this)
      state == [searchTerm     |-> call.searchTerm.chars,
                caseSensitive  |-> call.options.caseSensitive,
                wholeWords     |-> call.options.wholeWords,
                categories     |-> call.options.categories.entries,
                results        |-> call.outcome.value.results,
                lastSearchTime |-> call.at]
  IN  /\ call.status = "done" /\ ~call.outcome.threw /\ call.igFolder = igFolder
      /\ Step("saveSearchState", igFolder)
      /\ Store(saveSearchState([this EXCEPT !.heap[o] = state], igFolder, o))
      /\ UNCHANGED <<disk, currentIgFolder, call, history>>

\* a build of the folder's project starts
ClearOutputResults(igFolder) ==
  /\ Step("clearOutputResults", igFolder)
  /\ Store(clearOutputResults(this, igFolder))
  /\ history' = [history EXCEPT ![igFolder].cleared = TRUE]
  /\ UNCHANGED <<disk, currentIgFolder, call>>

\* IGSearch.setCurrentIgFolder
SetCurrentIgFolder(igFolder) ==
  /\ Step("setCurrentIgFolder", igFolder)
  /\ currentIgFolder' = igFolder
  /\ UNCHANGED <<disk, searchStates, heap, call, history>>

\* IGSearch.getCategoryAvailability; statThrows: fs.statSync fails on a path
\* that fs.existsSync has just found
GetCategoryAvailability(igFolder, statThrows) ==
  /\ StepReturning("getCategoryAvailability", igFolder, statThrows,
                   getCategoryAvailability(igFolder, statThrows))
  /\ UNCHANGED <<disk, searchStates, heap, currentIgFolder, call, history>>

\* what a completed call leaves in `call` and `history`
Complete(igFolder, searchTerm, options, outcome) ==
  /\ call' = [status |-> "done", at |-> steps + 1, igFolder |-> igFolder,
              searchTerm |-> searchTerm, options |-> options, outcome |-> outcome]
  /\ history' = IF outcome.threw THEN history
                ELSE [history EXCEPT ![igFolder] =
                        [searched |-> TRUE, results |-> outcome.value.results,
                         cleared |-> FALSE]]

\* one call of performSearch from start to end (the engine writes nothing
\* while it awaits, and the tree does not change)
PerformSearch(igFolder, searchTerm, options) ==
  /\ Step("performSearch", igFolder)
  /\ Complete(igFolder, searchTerm, options, performSearch(igFolder, searchTerm, options))
  /\ UNCHANGED <<disk, searchStates, heap, currentIgFolder>>

Init ==
  /\ disk \in SmallDisks
  /\ searchStates = [f \in Folders |-> 0]
  /\ heap = [o \in ObjectIds |-> NoObject]
  /\ currentIgFolder = NoFolder
  /\ call = NoCall
  /\ op = NoOp
  /\ history = [f \in Folders |-> NoHistory]
  /\ steps = 0
  /\ RendererInit

Next ==
  \/ \E f \in Folders : GetSearchState(f)
  \/ \E f \in Folders, c \in ToggleCategories, b \in BOOLEAN : SetCategory(f, c, b)
  \/ \E f \in Folders : SaveSearchState(f)
  \/ \E f \in Folders : ClearOutputResults(f)
  \/ \E f \in Folders : SetCurrentIgFolder(f)
  \/ \E f \in Folders, statThrows \in BOOLEAN : GetCategoryAvailability(f, statThrows)
  \/ \E f \in Folders, t \in StoreTerms, o \in StoreOptions : PerformSearch(f, t, o)

\* the state store under any sequence of at most MaxSteps operations
Spec == Init /\ [][Next]_vars

\* ----------------------------------------------------- one search, any input

AllEnabled ==
  << category(c_fsh, TRUE), category(c_inputResources, TRUE),
     category(c_inputPages, TRUE), category(c_translations, TRUE),
     category(c_outputResources, TRUE), category(c_outputHtml, TRUE) >>

NoneEnabled ==
  << category(c_fsh, FALSE), category(c_inputResources, FALSE),
     category(c_inputPages, FALSE), category(c_translations, FALSE),
     category(c_outputResources, FALSE), category(c_outputHtml, FALSE) >>

HtmlThenPages ==
  << category(c_outputHtml, TRUE), category(c_inputResources, FALSE),
     category(c_inputPages, TRUE) >>

PagesThenTranslations ==
  << category(c_inputPages, TRUE), category(c_translations, TRUE) >>

FshOnly == << category(c_fsh, TRUE) >>

UnknownThenFsh ==
  << category(c_outputLog, TRUE), category(c_fsh, TRUE), category(c_inputPages, FALSE) >>

SearchTerms ==
  { stringTerm(l_cat), stringTerm(<<"C","a","t">>), stringTerm(<<"c",".","t">>), stringTerm(<<"(","c","a","t">>),
    stringTerm(<<" "," ">>), stringTerm(<<>>),
    numberTerm(42), numberTerm(0), undefinedTerm, nullTerm }

CategoriesValues ==
  { categoriesObject(c) : c \in { <<>>, AllEnabled, NoneEnabled, DefaultCategories,
                                  PagesAndHtml, HtmlThenPages, PagesThenTranslations,
                                  UnknownThenFsh, FshOnly } }
  \cup { categoriesOf("undefined"), categoriesOf("null"), categoriesOf("number") }

SearchOptions ==
  { optionsOf("undefined"), optionsOf("null") }
  \cup { optionsObject(cs, ww, c) : cs \in BOOLEAN, ww \in BOOLEAN, c \in CategoriesValues }

\* the searches of the bulk trees
BulkOptions ==
  { optionsObject(cs, cs, categoriesObject(c)) :
      cs \in BOOLEAN, c \in {AllEnabled, PagesAndHtml, HtmlThenPages, PagesThenTranslations} }

SearchInputs ==
  { [disk |-> d, current |-> g, igFolder |-> f, searchTerm |-> t, options |-> o] :
      d \in SmallDisks, g \in {NoFolder} \cup Folders, f \in Folders,
      t \in SearchTerms, o \in SearchOptions }
  \cup
  { [disk |-> d, current |-> NoFolder, igFolder |-> <<n_ig>>,
     searchTerm |-> stringTerm(l_cat), options |-> o] :
      d \in BulkDisks, o \in BulkOptions }

SearchInit ==
  /\ \E input \in SearchInputs :
       /\ disk = input.disk
       /\ currentIgFolder = input.current
       /\ call = [status |-> "pending", at |-> 0, igFolder |-> input.igFolder,
                  searchTerm |-> input.searchTerm, options |-> input.options,
                  outcome |-> Thrown("none")]
  /\ searchStates = [f \in Folders |-> 0]
  /\ heap = [o \in ObjectIds |-> NoObject]
  /\ op = NoOp
  /\ history = [f \in Folders |-> NoHistory]
  /\ steps = 0
  /\ RendererInit

\* the pending call runs to its end
RunSearch ==
  /\ call.status = "pending"
  /\ Step("performSearch", call.igFolder)
  /\ Complete(call.igFolder, call.searchTerm, call.options,
              performSearch(call.igFolder, call.searchTerm, call.options))
  /\ UNCHANGED <<disk, searchStates, heap, currentIgFolder>>

\* one call of performSearch on any of the inputs
SearchSpec == SearchInit /\ [][RunSearch]_vars


\* ------------------------------------------------------------ builds

\* a click on the row of an IG
SelectRow(index) ==
  /\ selectedIgIndex' = index
  /\ UNCHANGED <<igList, buildProcesses, setups, processes>>
  /\ UNCHANGED searchVars

\* buildIg, with the part of startIgPublisherBuild that runs before its first
\* await; versionKnown: the settings name a publisher version with a
\* download URL (the setup throws at once where they do not)
BuildIg(versionKnown) ==
  /\ selectedIgIndex \in IgIndexes
  /\ buildProcesses[selectedIgIndex] = 0
  /\ setups[selectedIgIndex] < MaxSetups
  /\ igList' = [igList EXCEPT ![selectedIgIndex].buildStatus =
                  IF versionKnown THEN "Building" ELSE "Error"]
  /\ setups' = IF versionKnown THEN [setups EXCEPT ![selectedIgIndex] = @ + 1] ELSE setups
  /\ UNCHANGED <<selectedIgIndex, buildProcesses, processes>>
  /\ UNCHANGED searchVars

\* startIgPublisherBuild of the IG at index i from the end of its await of
\* ensureJarExists: the JAR is there and runIgPublisherProcess spawns the
\* process, which is stored in buildProcesses, or the download failed
StartIgPublisherBuild(i, jarExists) ==
  /\ setups[i] > 0
  /\ setups' = [setups EXCEPT ![i] = @ - 1]
  /\ IF jarExists
       THEN /\ \E p \in ProcessIds : processes[p].state = "none"
            /\ LET buildProcess == Min({p \in ProcessIds : processes[p].state = "none"})
               IN  /\ processes' = [processes EXCEPT ![buildProcess] =
                                      [ig |-> i, state |-> "running", wasTerminated |-> FALSE]]
                   /\ buildProcesses' = [buildProcesses EXCEPT ![selectedIgIndex] = buildProcess]
            /\ UNCHANGED igList
       ELSE /\ igList' = [igList EXCEPT ![i].buildStatus = "Error"]
            /\ UNCHANGED <<buildProcesses, processes>>
  /\ UNCHANGED selectedIgIndex
  /\ UNCHANGED searchVars

\* the 'close' event of a process; code: its exit code is 0
ProcessClose(p, code) ==
  /\ processes[p].state = "running"
  /\ processes' = [processes EXCEPT ![p].state = "closed"]
  /\ buildProcesses' = [buildProcesses EXCEPT ![selectedIgIndex] = 0]
  /\ igList' = [igList EXCEPT ![processes[p].ig].buildStatus =
                  IF processes[p].wasTerminated THEN "Stopped"
                  ELSE IF code THEN "Success" ELSE "Error"]
  /\ UNCHANGED <<selectedIgIndex, setups>>
  /\ UNCHANGED searchVars

\* the 'error' event of a process that could not be spawned
ProcessError(p) ==
  /\ processes[p].state = "running"
  /\ processes' = [processes EXCEPT ![p].state = "closed"]
  /\ buildProcesses' = [buildProcesses EXCEPT ![selectedIgIndex] = 0]
  /\ igList' = [igList EXCEPT ![processes[p].ig].buildStatus = "Error"]
  /\ UNCHANGED <<selectedIgIndex, setups>>
  /\ UNCHANGED searchVars

\* stopBuild: the process stored for the selected row is sent SIGTERM and
\* its entry removed; the process ends later, with its 'close' event
StopBuild ==
  /\ selectedIgIndex \in IgIndexes
  /\ buildProcesses[selectedIgIndex] # 0
  /\ processes' = [processes EXCEPT ![buildProcesses[selectedIgIndex]].wasTerminated = TRUE]
  /\ buildProcesses' = [buildProcesses EXCEPT ![selectedIgIndex] = 0]
  /\ igList' = [igList EXCEPT ![selectedIgIndex].buildStatus = "Stopped"]
  /\ UNCHANGED <<selectedIgIndex, setups>>
  /\ UNCHANGED searchVars

\* the state store after a search of the second IG's folder for `cat` in its
\* pages and built pages, saved as the folder's state
SavedSearch ==
  performSearch(<<n_ig2>>, stringTerm(l_cat),
                optionsObject(FALSE, FALSE, categoriesObject(PagesAndHtml)))

\* the state the store is in after that search, which returned `saved`,
\* and saveSearchState
SavedSearchState(saved) ==
  /\ disk = PlainTree
  /\ currentIgFolder = NoFolder
  /\ searchStates = [f \in Folders |-> IF f = <<n_ig2>> THEN 1 ELSE 0]
  /\ heap = [o \in ObjectIds |->
               IF o = 1
                 THEN [searchTerm     |-> l_cat,
                       caseSensitive  |-> FALSE,
                       wholeWords     |-> FALSE,
                       categories     |-> PagesAndHtml,
                       results        |-> saved.value.results,
                       lastSearchTime |-> 1]
                 ELSE NoObject]
  /\ call = [status |-> "done", at |-> 1, igFolder |-> <<n_ig2>>,
             searchTerm |-> stringTerm(l_cat),
             options |-> optionsObject(FALSE, FALSE, categoriesObject(PagesAndHtml)),
             outcome |-> saved]
  /\ op = [NoOp EXCEPT !.name = "saveSearchState", !.igFolder = <<n_ig2>>]
  /\ history = [f \in Folders |->
                  IF f = <<n_ig2>>
                    THEN [searched |-> TRUE, results |-> saved.value.results,
                          cleared |-> FALSE]
                    ELSE NoHistory]
  /\ steps = 2

BuildInit ==
  /\ SavedSearchState(SavedSearch)
  /\ RendererInit

BuildNext ==
  \/ \E index \in IgIndexes : SelectRow(index)
  \/ \E versionKnown \in BOOLEAN : BuildIg(versionKnown)
  \/ \E i \in IgIndexes, jarExists \in BOOLEAN : StartIgPublisherBuild(i, jarExists)
  \/ \E p \in ProcessIds, code \in BOOLEAN : ProcessClose(p, code)
  \/ \E p \in ProcessIds : ProcessError(p)
  \/ StopBuild

\* the renderer's builds under any order of clicks, setups ending and
\* process events, after a saved search
BuildSpec == BuildInit /\ [][BuildNext]_vars

\* ------------------------------------------------------------- properties

\* the call has run to its end and returned a value
Completed == call.status = "done" /\ ~call.outcome.threw

\* the search state of a folder in the engine of map ss and objects h
stateOf(ss, h, igFolder) ==
  IF ss[igFolder] = 0 THEN NoObject ELSE h[ss[igFolder]]

\* a result list without its entries of the two output categories
WithoutOutput(results) ==
  SelectSeq(results,
            LAMBDA result : result.category \notin {c_outputResources, c_outputHtml})

\* the term is a string that is empty or all whitespace
Blank(searchTerm) == searchTerm.type = "string" /\ trim(searchTerm.chars) = <<>>

\* the number of matching lines in the files of the enabled categories of
\* the call's folder: what the scan counts when nothing limits it
MatchingLines ==
  IF call.options.kind = "null" \/ call.searchTerm.type # "string"
     \/ Blank(call.searchTerm)
    THEN 0
    ELSE searchAndRank(call.igFolder, call.searchTerm.chars,
                       call.options.caseSensitive, call.options.wholeWords,
                       categoriesOrDefault(call.options), NoLimit).value.totalMatches

\* the sum of matchCount over the lines of the returned files
SumOfMatchCounts(results) ==
  sumRange([i \in 1..Len(results) |->
              sumRange([j \in 1..Len(results[i].matches) |->
                          results[i].matches[j].matchCount],
                       1, Len(results[i].matches))],
           1, Len(results))

\* C1: the results of a folder's state are those its last completed search
\* returned, or those without the output entries when clearOutputResults
\* ran since
C1_ResultsReflectLastSearch ==
  \A f \in Folders :
    (searchStates[f] # 0 /\ history[f].searched)
      => heap[searchStates[f]].results =
           IF history[f].cleared THEN WithoutOutput(history[f].results)
                                 ELSE history[f].results

\* C2: the totalMatches a search returns never exceeds maxResults
C2_TotalWithinBudget ==
  Completed => call.outcome.value.totalMatches <= maxResults

\* C3: when more than maxResults matching lines exist in the enabled
\* categories, the search returns truncated = true
C3_TruncatedWhenOverBudget ==
  (Completed /\ MatchingLines > maxResults)
    => /\ "truncated" \in DOMAIN call.outcome.value
       /\ call.outcome.value.truncated

\* C4: a search returns at most maxResults files
C4_ResultsWithinBudget ==
  Completed => Len(call.outcome.value.results) <= maxResults

C4_Witness ==
  Completed /\ Len(call.outcome.value.results) = maxResults

\* C5: the totalMatches a search returns is the sum of matchCount over the
\* lines of the files it returns
C5_TotalIsSumOfMatchCounts ==
  Completed
    => call.outcome.value.totalMatches = SumOfMatchCounts(call.outcome.value.results)

\* C6: no call lets an exception reach the caller; every call returns an
\* object whose error is null or a message
C6_NoExceptionEscapes ==
  call.status = "done"
    => /\ ~call.outcome.threw
       /\ "error" \in DOMAIN call.outcome.value

\* C7: a search for an empty or all-whitespace term (with an options object,
\* or none) returns no results, totalMatches 0 and error null, without a
\* filesystem call and without a change of the engine's states
C7_BlankTermShortCircuits ==
  [][(op'.name = "performSearch" /\ steps' # steps
      /\ Blank(call'.searchTerm) /\ call'.options.kind # "null")
       => /\ ~call'.outcome.threw
          /\ call'.outcome.value = [results |-> <<>>, totalMatches |-> 0, error |-> null]
          /\ call'.outcome.log = <<>>
          /\ UNCHANGED <<searchStates, heap>>]_vars

C7_Witness ==
  /\ op.name = "performSearch" /\ call.at = steps
  /\ call.searchTerm = stringTerm(<<" "," ">>)
  /\ call.options = optionsObject(FALSE, FALSE, categoriesObject(PagesAndHtml))
  /\ disk = SmallTree /\ call.igFolder = <<n_ig>>
  /\ searchStates[call.igFolder] # 0
  /\ Completed /\ call.outcome.value.results = <<>>

\* C8: every file returned has the category of an entry whose flag is true;
\* with no entry, or every flag false, the search returns no results,
\* totalMatches 0 and error null
C8_OnlyEnabledCategories ==
  Completed =>
    LET categories == categoriesOrDefault(call.options)
        value      == call.outcome.value
    IN  /\ \A i \in 1..Len(value.results) :
             \E k \in 1..Len(categories.entries) :
               /\ categories.entries[k].name = value.results[i].category
               /\ categories.entries[k].enabled
        /\ (categories.kind # "null"
            /\ \A k \in 1..Len(categories.entries) : ~categories.entries[k].enabled)
             => /\ value.results = <<>>
                /\ value.totalMatches = 0
                /\ value.error = null

C8_Witness ==
  /\ Completed /\ disk = SmallTree /\ call.igFolder = <<n_ig>>
  /\ call.searchTerm = stringTerm(l_cat)
  /\ call.options = optionsObject(FALSE, FALSE, categoriesObject(PagesAndHtml))
  /\ Len(call.outcome.value.results) > 0

\* C9: clearOutputResults removes from the folder's stored results exactly
\* the entries of the categories outputResources and outputHtml, keeps the
\* others in their order, and leaves the other fields of the state as they were
C9_ClearRemovesOutputOnly ==
  [][(op'.name = "clearOutputResults" /\ steps' # steps)
       => LET before == IF searchStates[op'.igFolder] = 0 THEN DefaultState
                        ELSE heap[searchStates[op'.igFolder]]
              after  == stateOf(searchStates', heap', op'.igFolder)
          IN  /\ after # NoObject
              /\ after = [before EXCEPT !.results = WithoutOutput(before.results)]]_vars

C9_Witness ==
  /\ op.name = "clearOutputResults"
  /\ searchStates[op.igFolder] # 0
  /\ history[op.igFolder].searched /\ history[op.igFolder].cleared
  /\ heap[searchStates[op.igFolder]].results # <<>>
  /\ heap[searchStates[op.igFolder]].results = WithoutOutput(history[op.igFolder].results)
  /\ Len(heap[searchStates[op.igFolder]].results) < Len(history[op.igFolder].results)

\* C10: an operation on one folder leaves the state of every other folder
\* (term, flags, categories, results) as it was
C10_StatesIndependent ==
  [][steps' # steps
       => \A other \in Folders \ {op'.igFolder} :
            stateOf(searchStates', heap', other) = stateOf(searchStates, heap, other)]_vars

C10_Witness ==
  /\ op.name \in {"setCategory", "clearOutputResults"}
  /\ \E other \in Folders \ {op.igFolder} :
       /\ searchStates[other] # 0 /\ searchStates[op.igFolder] # 0
       /\ searchStates[other] # searchStates[op.igFolder]
       /\ heap[searchStates[other]] # heap[searchStates[op.igFolder]]

\* C11: getSearchState of a folder without a state stores and returns the
\* default state (empty term, flags false, the four input categories
\* enabled, the two output categories disabled, no results, no
\* lastSearchTime); of a folder with a state it returns that state and
\* changes nothing, and a second call returns the same state
C11_GetSearchStateCreatesOrReturns ==
  \A f \in Folders :
    LET got   == getSearchState(this, f)
        again == getSearchState(got.self, f)
    IN  /\ got.self.searchStates[f] = got.state
        /\ got.state \in ObjectIds
        /\ IF searchStates[f] = 0
             THEN /\ got.self.heap[got.state] =
                       [searchTerm |-> <<>>, caseSensitive |-> FALSE, wholeWords |-> FALSE,
                        categories |->
                          << [name |-> c_fsh, enabled |-> TRUE],
                             [name |-> c_inputResources, enabled |-> TRUE],
                             [name |-> c_inputPages, enabled |-> TRUE],
                             [name |-> c_translations, enabled |-> TRUE],
                             [name |-> c_outputResources, enabled |-> FALSE],
                             [name |-> c_outputHtml, enabled |-> FALSE] >>,
                        results |-> <<>>, lastSearchTime |-> 0]
                  /\ \A g \in Folders \ {f} : got.self.searchStates[g] = searchStates[g]
             ELSE /\ got.state = searchStates[f]
                  /\ got.self = this
        /\ again.state = got.state
        /\ again.self = got.self

C11_Witness ==
  /\ op.name = "getSearchState"
  /\ searchStates[op.igFolder] # 0
  /\ heap[searchStates[op.igFolder]] # DefaultState
  /\ heap[searchStates[op.igFolder]].results # <<>>

\* C12: getCategoryAvailability returns (never throws) fsh = true iff
\* sushi-config.yaml is in the project root, inputResources, inputPages and
\* translations = true, outputResources and outputHtml = true iff `output`
\* is a directory whose probe did not fail, and leaves every SearchState as
\* it was
C12_AvailabilityFollowsTree ==
  [][(op'.name = "getCategoryAvailability" /\ steps' # steps)
       => LET f            == op'.igFolder
              availability == op'.returned.value
              hasOutputDir == nodeAt(disk, pathJoin(f, n_output)).kind = "dir"
          IN  /\ ~op'.returned.threw
              /\ availability.fsh = (nodeAt(disk, pathJoin(f, n_sushiConfig)).kind # "none")
              /\ availability.inputResources /\ availability.inputPages
              /\ availability.translations
              /\ availability.outputResources = (hasOutputDir /\ ~op'.fault)
              /\ availability.outputHtml = (hasOutputDir /\ ~op'.fault)
              /\ UNCHANGED <<searchStates, heap>>]_vars

\* `output` is there but is a file, in a project that has states
C12_Witness ==
  /\ op.name = "getCategoryAvailability" /\ ~op.fault
  /\ nodeAt(disk, pathJoin(op.igFolder, n_output)).kind = "file"
  /\ ~op.returned.value.outputHtml /\ ~op.returned.value.fsh
  /\ searchStates[op.igFolder] # 0

\* the categories of the call's options that are enabled
EnabledCategories ==
  { call.options.categories.entries[i].name :
      i \in { k \in 1..Len(call.options.categories.entries) :
                call.options.categories.entries[k].enabled = TRUE } }

\* C13: in a project without sushi-config.yaml at its root a search with only
\* the fsh category enabled returns no result and error = null
C13_NoFshResultsWithoutSushiConfig ==
  ( /\ Completed
    /\ call.options.kind = "object" /\ call.options.categories.kind = "object"
    /\ EnabledCategories = {c_fsh}
    /\ nodeAt(disk, pathJoin(call.igFolder, n_sushiConfig)).kind = "none" )
  => /\ call.outcome.value.results = <<>>
     /\ call.outcome.value.error = null

\* ---------------------------------------- what a line contains, by definition

\* the text as the case rule compares it
folded(s, caseSensitive) == IF caseSensitive THEN s ELSE toLowerCase(s)

\* position i of the line lies between a word character and a character that
\* is none (or an end of the line)
atWordEdge(line, i) ==
  (i > 1 /\ IsWordChar(line[i - 1])) # (i <= Len(line) /\ IsWordChar(line[i]))

\* the positions where the term occurs in the line, letter by letter
occurrences(line, term, caseSensitive, wholeWords) ==
  { i \in 1..(Len(line) - Len(term) + 1) :
      /\ SubSeq(folded(line, caseSensitive), i, i + Len(term) - 1)
           = folded(term, caseSensitive)
      /\ wholeWords => (atWordEdge(line, i) /\ atWordEdge(line, i + Len(term))) }

\* the number of occurrences counted from the left without overlap, among the
\* positions occ that are not before position from
RECURSIVE countFrom(_, _, _)
countFrom(occ, width, from) ==
  IF \A i \in occ : i < from THEN 0
  ELSE 1 + countFrom(occ, width, Min({i \in occ : i >= from}) + width)

occurrenceCount(line, term, caseSensitive, wholeWords) ==
  countFrom(occurrences(line, term, caseSensitive, wholeWords), Len(term), 1)

\* the files of the tree below a node, with their lines
RECURSIVE filesUnder(_, _)
filesUnder(node, p) ==
  IF node.kind = "file" THEN { [path |-> p, lines |-> node.lines] }
  ELSE UNION { filesUnder(node.entries[i], pathJoin(p, node.entries[i].name)) :
                 i \in 1..Len(node.entries) }

\* the call searches for a string that is not blank, with options it can read
Searching ==
  /\ call.searchTerm.type = "string" /\ ~Blank(call.searchTerm)
  /\ call.options.kind # "null"

\* C14: every returned file has at least one LineMatch, every LineMatch has
\* matchCount >= 1, and the line it names holds an occurrence of the term:
\* a file without a matching line is in no result
C14_NoResultWithoutMatch ==
  Completed =>
    \A i \in 1..Len(call.outcome.value.results) :
      LET result == call.outcome.value.results[i]
          lines  == nodeAt(disk, result.filePath).lines
      IN  /\ Len(result.matches) >= 1
          /\ \A j \in 1..Len(result.matches) :
                /\ result.matches[j].matchCount >= 1
                /\ result.matches[j].lineNumber \in 1..Len(lines)
                /\ occurrences(lines[result.matches[j].lineNumber], call.searchTerm.chars,
                               call.options.caseSensitive, call.options.wholeWords) # {}

\* a search of the pages that returns a page and leaves out dog.md, which has
\* no matching line
C14_Witness ==
  /\ Completed /\ disk = SmallTree /\ call.igFolder = <<n_ig>>
  /\ call.searchTerm = stringTerm(l_cat)
  /\ \E i \in 1..Len(call.outcome.value.results) :
        call.outcome.value.results[i].fileName = <<"i","n","t","r","o",".","m","d">>
  /\ \A i \in 1..Len(call.outcome.value.results) :
        call.outcome.value.results[i].fileName # <<"d","o","g",".","m","d">>

\* the numbers of the lines that searchInFile reports with the pattern
reportedLines(lines, pattern) ==
  { lineMatches(lines, pattern)[j].lineNumber : j \in 1..Len(lineMatches(lines, pattern)) }

\* the numbers of the lines a result reports
resultLines(result) ==
  { result.matches[j].lineNumber : j \in 1..Len(result.matches) }

\* the numbers of the lines in which the term occurs
occurrenceLines(lines, term, caseSensitive, wholeWords) ==
  { k \in 1..Len(lines) : occurrences(lines[k], term, caseSensitive, wholeWords) # {} }

\* the files of the call's project
ProjectFiles == filesUnder(nodeAt(disk, call.igFolder), call.igFolder)

\* C15: a search for a non-blank term, regex metacharacters included, ends
\* with error = null (the categories argument not being null); without wholeWords the lines reported for a file, in
\* the results and by searchInFile on any file of the project, are exactly
\* the lines that contain the term as a literal substring under the call's
\* case rule, and with wholeWords they are among those lines
C15_TermIsLiteral ==
  (Completed /\ Searching) =>
    /\ call.options.categories.kind # "null" => call.outcome.value.error = null
    /\ \A i \in 1..Len(call.outcome.value.results) :
          LET result  == call.outcome.value.results[i]
              literal == occurrenceLines(nodeAt(disk, result.filePath).lines,
                                         call.searchTerm.chars,
                                         call.options.caseSensitive, FALSE)
          IN  IF call.options.wholeWords THEN resultLines(result) \subseteq literal
              ELSE resultLines(result) = literal
    /\ \A file \in ProjectFiles :
          reportedLines(file.lines,
                        createSearchPattern(call.searchTerm.chars,
                                            call.options.caseSensitive, FALSE))
            = occurrenceLines(file.lines, call.searchTerm.chars,
                              call.options.caseSensitive, FALSE)

\* the term c.t finds the line with `c.t` and no line with `cat` or `Cat`
C15_Witness ==
  /\ Completed /\ disk = SmallTree /\ call.igFolder = <<n_ig2>>
  /\ call.searchTerm = stringTerm(<<"c",".","t">>) /\ ~call.options.wholeWords
  /\ Len(call.outcome.value.results) = 1
  /\ call.outcome.value.results[1].fileName = <<"r","e",".","m","d">>
  /\ resultLines(call.outcome.value.results[1]) = {1}
  /\ call.outcome.value.error = null

\* C16: a line matches the pattern made with caseSensitive = false iff its
\* lower-case form contains the lower-case form of the term, and the pattern
\* made with caseSensitive = true iff it contains the term character by
\* character; the results of the call follow the rule of its caseSensitive
C16_CaseRule ==
  (Completed /\ Searching) =>
    /\ \A file \in ProjectFiles : \A k \in 1..Len(file.lines) :
          /\ (matchAll(file.lines[k],
                        createSearchPattern(call.searchTerm.chars, FALSE, FALSE)) # <<>>)
               = includes(toLowerCase(file.lines[k]), toLowerCase(call.searchTerm.chars))
          /\ (matchAll(file.lines[k],
                        createSearchPattern(call.searchTerm.chars, TRUE, FALSE)) # <<>>)
               = includes(file.lines[k], call.searchTerm.chars)
    /\ \A i \in 1..Len(call.outcome.value.results) :
          \A j \in 1..Len(call.outcome.value.results[i].matches) :
            LET line == nodeAt(disk, call.outcome.value.results[i].filePath)
                          .lines[call.outcome.value.results[i].matches[j].lineNumber]
            IN  IF call.options.caseSensitive
                  THEN includes(line, call.searchTerm.chars)
                  ELSE includes(toLowerCase(line), toLowerCase(call.searchTerm.chars))

\* the case-sensitive search for `cat` in a project whose only page with the
\* word has `Cat`: the page with `(cat)` is returned, the page with `Cat` is not
C16_Witness ==
  /\ Completed /\ disk = SmallTree /\ call.igFolder = <<n_ig2>>
  /\ call.searchTerm = stringTerm(l_cat) /\ call.options.caseSensitive
  /\ \E i \in 1..Len(call.outcome.value.results) :
        call.outcome.value.results[i].fileName = <<"r","e",".","m","d">>
  /\ \A i \in 1..Len(call.outcome.value.results) :
        call.outcome.value.results[i].fileName # <<"c","a","t",".","m","d">>

\* C17: with wholeWords = true the matches counted on a line are the
\* occurrences of the term that have a word boundary on both sides, with
\* wholeWords = false all its occurrences; every line a wholeWords search
\* returns holds an occurrence between two word boundaries
C17_WholeWords ==
  (Completed /\ Searching) =>
    /\ \A file \in ProjectFiles : \A k \in 1..Len(file.lines) :
          /\ Len(matchAll(file.lines[k],
                          createSearchPattern(call.searchTerm.chars,
                                              call.options.caseSensitive, TRUE)))
               = occurrenceCount(file.lines[k], call.searchTerm.chars,
                                 call.options.caseSensitive, TRUE)
          /\ Len(matchAll(file.lines[k],
                          createSearchPattern(call.searchTerm.chars,
                                              call.options.caseSensitive, FALSE)))
               = occurrenceCount(file.lines[k], call.searchTerm.chars,
                                 call.options.caseSensitive, FALSE)
    /\ call.options.wholeWords =>
          \A i \in 1..Len(call.outcome.value.results) :
            resultLines(call.outcome.value.results[i])
              = occurrenceLines(nodeAt(disk, call.outcome.value.results[i].filePath).lines,
                                call.searchTerm.chars, call.options.caseSensitive, TRUE)

\* the whole-word search for `cat` returns the page with the word `cat` and
\* not the page whose only line is `category`
C17_Witness ==
  /\ Completed /\ disk = SmallTree /\ call.igFolder = <<n_ig>>
  /\ call.searchTerm = stringTerm(l_cat) /\ call.options.wholeWords
  /\ ~call.options.caseSensitive
  /\ \E i \in 1..Len(call.outcome.value.results) :
        call.outcome.value.results[i].fileName = <<"i","n","t","r","o",".","m","d">>
  /\ \A i \in 1..Len(call.outcome.value.results) :
        call.outcome.value.results[i].fileName # <<"c","a","t",".","m","d">>

\* t is the line without its leading and trailing whitespace
isTrimmed(t, line) ==
  /\ t = <<>> \/ (~IsWhitespace(t[1]) /\ ~IsWhitespace(t[Len(t)]))
  /\ \E a \in 0..(Len(line) - Len(t)) :
       /\ SubSeq(line, a + 1, a + Len(t)) = t
       /\ \A i \in (1..a) \cup ((a + Len(t) + 1)..Len(line)) : IsWhitespace(line[i])

\* the matches list is what the lines of a file give for the call's term:
\* one entry for each line with an occurrence, in the order of the lines
isLineMatchList(matches, lines) ==
  /\ \A j \in 1..Len(matches) :
       /\ matches[j].lineNumber \in 1..Len(lines)
       /\ isTrimmed(matches[j].line, lines[matches[j].lineNumber])
       /\ matches[j].matchCount
            = occurrenceCount(lines[matches[j].lineNumber], call.searchTerm.chars,
                              call.options.caseSensitive, call.options.wholeWords)
       /\ matches[j].matchCount >= 1
       /\ j > 1 => matches[j - 1].lineNumber < matches[j].lineNumber
  /\ { matches[j].lineNumber : j \in 1..Len(matches) }
       = occurrenceLines(lines, call.searchTerm.chars,
                         call.options.caseSensitive, call.options.wholeWords)

\* C18: the LineMatch list of a file has one entry for each line with a
\* match and no other, in increasing line order, with the 1-based number of
\* the line, the line without leading and trailing whitespace and the number
\* of non-overlapping matches on it; this holds for the files the call
\* returns and for searchInFile on every file of the project
C18_LineMatchList ==
  (Completed /\ Searching) =>
    /\ \A i \in 1..Len(call.outcome.value.results) :
         isLineMatchList(call.outcome.value.results[i].matches,
                         nodeAt(disk, call.outcome.value.results[i].filePath).lines)
    /\ \A file \in ProjectFiles :
         isLineMatchList(lineMatches(readFileSync(disk, file.path).lines,
                                     createSearchPattern(call.searchTerm.chars,
                                                         call.options.caseSensitive,
                                                         call.options.wholeWords)),
                         readFileSync(disk, file.path).lines)

\* line 3 of intro.md, `  a cat, a Cat  `, is reported with its number, trimmed
\* and with its two matches
C18_Witness ==
  /\ Completed /\ disk = SmallTree /\ call.igFolder = <<n_ig>>
  /\ \E i \in 1..Len(call.outcome.value.results) :
       /\ call.outcome.value.results[i].fileName = <<"i","n","t","r","o",".","m","d">>
       /\ call.outcome.value.results[i].matches
            = << [lineNumber |-> 3, line |-> <<"a"," ","c","a","t",","," ","a"," ","C","a","t">>, matchCount |-> 2] >>

\* the base name of the result's file holds the call's term (what a pattern
\* that starts at the beginning of the name finds)
nameMatches(result) ==
  occurrences(result.fileName, call.searchTerm.chars,
              call.options.caseSensitive, call.options.wholeWords) # {}

\* result `first` may stand before result `second`: not a content-only match
\* before a name match, and within a tier not fewer matching lines before more
mayPrecede(first, second) ==
  /\ nameMatches(second) => nameMatches(first)
  /\ nameMatches(first) = nameMatches(second)
       => Len(first.matches) >= Len(second.matches)

\* C19: in the results every file whose base name matches the pattern
\* precedes every file whose name does not, and of two files of the same
\* tier the one with more matching lines precedes the one with fewer (the
\* order is total, so it holds for all pairs iff it holds for neighbours)
C19_ResultsRanked ==
  (Completed /\ Searching) =>
    \A i \in 1..(Len(call.outcome.value.results) - 1) :
      mayPrecede(call.outcome.value.results[i], call.outcome.value.results[i + 1])

\* the names of the categories whose search the call began, in that order
visited ==
  LET began == SelectSeq(call.outcome.log, LAMBDA e : e.op = "category")
  IN  [k \in 1..Len(began) |-> began[k].path[1]]

\* the names of the enabled entries of the categories mapping, in its order
enabledNames ==
  LET enabled == SelectSeq(call.options.categories.entries, LAMBDA c : c.enabled)
  IN  [k \in 1..Len(enabled) |-> enabled[k].name]

\* the matching lines of the returned files of the first k enabled categories
linesOfFirst(k) ==
  sumRange([i \in 1..Len(call.outcome.value.results) |->
              IF \E m \in 1..k :
                   call.outcome.value.results[i].category = enabledNames[m]
                THEN Len(call.outcome.value.results[i].matches) ELSE 0],
           1, Len(call.outcome.value.results))

\* the locations of the categories whose search began
visitedLocations ==
  UNION { { getCategoryPaths(call.igFolder, visited[k]).paths[n].path :
              n \in 1..Len(getCategoryPaths(call.igFolder, visited[k]).paths) } :
          k \in 1..Len(visited) }

\* C20: the categories are searched in the order of the categories mapping,
\* and a category is searched iff the matching lines of the categories before
\* it are fewer than maxResults: from the first category after which the
\* total has reached maxResults on, no category is begun, no file or
\* directory of its locations is read and none of its files is returned
C20_StopsAtBudget ==
  (Completed /\ Searching /\ call.options.categories.kind = "object") =>
    /\ Len(visited) <= Len(enabledNames)
    /\ visited = SubSeq(enabledNames, 1, Len(visited))
    /\ \A k \in 1..Len(enabledNames) :
          (k <= Len(visited)) = (linesOfFirst(k - 1) < maxResults)
    /\ \A i \in 1..Len(call.outcome.value.results) :
          \E k \in 1..Len(visited) : call.outcome.value.results[i].category = visited[k]
    /\ \A n \in 1..Len(call.outcome.log) :
          call.outcome.log[n].op \in {"read", "readdir", "stat"}
            => \E loc \in visitedLocations : startsWith(call.outcome.log[n].path, loc)

\* the pages give 201 matching lines: the translations, enabled and with a
\* matching file, are not searched
C20_Witness ==
  /\ Completed /\ disk = BulkLinesTree
  /\ enabledNames = <<c_inputPages, c_translations>>
  /\ visited = <<c_inputPages>>
  /\ linesOfFirst(1) >= maxResults
  /\ \A i \in 1..Len(call.outcome.value.results) :
        call.outcome.value.results[i].category # c_translations

\* the six categories of the category table
KnownCategories ==
  {c_fsh, c_inputResources, c_inputPages, c_translations, c_outputResources, c_outputHtml}

\* the pattern of the call
CallPattern ==
  createSearchPattern(call.searchTerm.chars, call.options.caseSensitive,
                      call.options.wholeWords)

\* the file lies in the location: below it, and directly in it when the
\* location is not searched recursively
inLocation(filePath, location) ==
  /\ startsWith(filePath, location.path)
  /\ location.recursive \/ Len(filePath) = Len(location.path) + 1

\* the position in the category's table of the location a returned file is from
locationIndex(filePath, locations) ==
  Min({ k \in 1..Len(locations) : inLocation(filePath, locations[k]) })

\* what searchCategory returns with budget n, against what it returns when
\* nothing limits it: the first n of those results in the same order, found
\* with no filesystem call after the read of the file that gave the n-th,
\* and the results of an earlier location before those of a later one
withinBudget(limited, unlimited, locations, n) ==
  /\ Len(limited.results) <= n
  /\ limited.results
       = SubSeq(unlimited.results, 1, Min({n, Len(unlimited.results)}))
  /\ n = 0 => \A e \in 1..Len(limited.log) : limited.log[e].op = "exists"
  /\ (n >= 1 /\ Len(limited.results) = n)
       => limited.log[Len(limited.log)]
            = [op |-> "read", path |-> limited.results[n].filePath]
  /\ \A i \in 1..(Len(limited.results) - 1) :
       locationIndex(limited.results[i].filePath, locations)
         <= locationIndex(limited.results[i + 1].filePath, locations)

\* the budgets tried below the limit of a whole search
SmallBudgets == 0..2

\* C21: searchCategory with a remaining budget n returns at most n results,
\* the first n of the category, makes no filesystem call once it has
\* collected n, and takes the locations in the order of the category table
C21_CategoryWithinBudget ==
  (Completed /\ Searching) =>
    \A c \in KnownCategories : \A n \in SmallBudgets \cup {SplitFiles, maxResults} :
      withinBudget(searchCategory(call.igFolder, c, CallPattern, n),
                   searchCategory(call.igFolder, c, CallPattern, NoLimit),
                   getCategoryPaths(call.igFolder, c).paths, n)

\* the number of returned files of a category
resultsOf(c) ==
  Cardinality({ i \in 1..Len(call.outcome.value.results) :
                  call.outcome.value.results[i].category = c })

\* 150 built pages leave a budget of 50 for the 150 pages: 50 are returned
C21_Witness ==
  /\ Completed /\ disk = SplitTree
  /\ visited = <<c_outputHtml, c_inputPages>>
  /\ resultsOf(c_outputHtml) = SplitFiles
  /\ resultsOf(c_inputPages) = maxResults - SplitFiles
  /\ Len(searchCategory(call.igFolder, c_inputPages, CallPattern, NoLimit).results)
       = SplitFiles

\* a location of the category table
location(path, extensions, recursive) ==
  [path |-> path, extensions |-> extensions, recursive |-> recursive]

\* the category table: the locations of a category for the project at root
categoryTable(root, c) ==
  LET resources == <<<<".","j","s","o","n">>, <<".","x","m","l">>, <<".","m","a","p">>, <<".","t","t","l">>>>
  IN  IF c = c_fsh
        THEN << location(root, <<<<".","y","a","m","l">>>>, FALSE),
                location(root \o <<n_input>>, <<<<".","f","s","h">>>>, TRUE) >>
      ELSE IF c = c_inputResources
        THEN << location(root \o <<n_input>>, resources, TRUE),
                location(root \o <<n_fshGenerated>>, resources, TRUE) >>
      ELSE IF c = c_inputPages
        THEN << location(root \o <<n_input, n_pagecontent>>, <<>>, TRUE) >>
      ELSE IF c = c_translations
        THEN << location(root \o <<n_input, n_translations>>, <<>>, TRUE) >>
      ELSE IF c = c_outputResources
        THEN << location(root \o <<n_output>>, <<<<".","j","s","o","n">>>>, TRUE) >>
      ELSE IF c = c_outputHtml
        THEN << location(root \o <<n_output>>, <<<<".","h","t","m","l">>>>, TRUE) >>
      ELSE <<>>

\* the locations getCategoryPaths returned, without their filters
returnedLocations(root, c) ==
  [k \in 1..Len(getCategoryPaths(root, c).paths) |->
     location(getCategoryPaths(root, c).paths[k].path,
              getCategoryPaths(root, c).paths[k].extensions,
              getCategoryPaths(root, c).paths[k].recursive)]

\* C22: for every project and category name getCategoryPaths returns the
\* locations of the category table whose path is on disk, in the order of
\* the table and with its extensions and recursive flag, and the empty list
\* for a name that is none of the six
C22_PathsAreExistingLocations ==
  \A root \in Folders : \A c \in KnownCategories \cup {c_outputLog} :
    /\ returnedLocations(root, c)
         = SelectSeq(categoryTable(root, c),
                     LAMBDA loc : nodeAt(disk, loc.path).kind # "none")
    /\ c = c_outputLog => getCategoryPaths(root, c).paths = <<>>

\* a search of a project that has fsh-generated and no input: the generated
\* resource is found, and the pages have no location
C22_Witness ==
  /\ Completed /\ disk = PlainTree /\ call.igFolder = <<n_ig2>>
  /\ returnedLocations(call.igFolder, c_inputResources)
       = << location(<<n_ig2, n_fshGenerated>>,
                     <<<<".","j","s","o","n">>, <<".","x","m","l">>, <<".","m","a","p">>, <<".","t","t","l">>>>, TRUE) >>
  /\ returnedLocations(call.igFolder, c_inputPages) = <<>>
  /\ \E i \in 1..Len(call.outcome.value.results) :
       call.outcome.value.results[i].fileName = <<"g","e","n",".","j","s","o","n">>

\* the names of the directories that a recursive listing does not enter
ExcludedDirectories ==
  { <<"n","o","d","e","_","m","o","d","u","l","e","s">>, <<".","g","i","t">>, <<".","s","v","n">>, <<".","h","g">>, <<"t","e","m","p">>, <<"i","n","p","u","t","-","c","a","c","h","e">>,
    <<"t","x","c","a","c","h","e">>, <<"b","i","n">>, <<"o","b","j">>, <<"t","a","r","g","e","t">>, <<"b","u","i","l","d">>, <<"d","i","s","t">>, <<".","v","s">>,
    <<".","v","s","c","o","d","e">>, <<".","i","d","e","a">> }

\* the files below a directory that can be listed, each with the names of
\* the directories between that directory and the file; a directory that
\* cannot be listed and an entry that cannot be stat-ed give none
RECURSIVE filesBelow(_, _, _)
filesBelow(node, p, via) ==
  IF node.kind # "dir" \/ node.perm # "ok" THEN {}
  ELSE UNION { IF node.entries[i].kind = "file"
                 THEN IF node.entries[i].perm = "nostat" THEN {}
                      ELSE { [path |-> pathJoin(p, node.entries[i].name),
                              name |-> node.entries[i].name, via |-> via] }
                 ELSE filesBelow(node.entries[i], pathJoin(p, node.entries[i].name),
                                 Append(via, node.entries[i].name)) :
               i \in 1..Len(node.entries) }

\* the files findFilesInPath is to return
expectedFiles(dir, extensions, recursive) ==
  { f.path : f \in
      { g \in filesBelow(nodeAt(disk, dir), dir, <<>>) :
          /\ extensions = <<>> \/ toLowerCase(extname(g.name)) \in Range(extensions)
          /\ \/ g.via = <<>>
             \/ /\ recursive
                /\ \A k \in 1..Len(g.via) :
                     toLowerCase(g.via[k]) \notin ExcludedDirectories } }

\* the directories listed and the extension lists asked for
ListedDirectories ==
  { call.igFolder, call.igFolder \o <<n_input>>,
    call.igFolder \o <<n_input, n_pagecontent>>, call.igFolder \o <<n_output>> }
ListedExtensions == { <<>>, <<<<".","m","d">>>>, <<<<".","f","s","h">>, <<".","j","s","o","n">>>> }

\* what findFilesInPath found is the expected set of files, each once, and
\* a listing that is not recursive has listed no directory but dir
foundAsExpected(found, expected, dir, recursive) ==
  /\ Len(found.files) = Cardinality(expected)
  /\ Range(found.files) = expected
  /\ ~recursive =>
       \A e \in 1..Len(found.log) :
         found.log[e].op = "readdir" => found.log[e].path = dir

\* C23: findFilesInPath returns, each once, the files under dir whose
\* lower-cased extension is in extensions (any file when extensions is
\* empty) and that are directly in dir or, with recursive = true, below no
\* directory whose lower-cased name is in the exclusion list; with
\* recursive = false it lists no directory but dir
C23_FilesFound ==
  \A dir \in ListedDirectories : \A extensions \in ListedExtensions :
    \A recursive \in BOOLEAN :
      foundAsExpected(findFilesInPath(dir, extensions, recursive),
                      expectedFiles(dir, extensions, recursive), dir, recursive)

\* a search of the pages of a project whose pagecontent has NOTES.MD and a
\* directory Build: tmp.md in Build is not found, NOTES.MD is
C23_Witness ==
  /\ Completed /\ disk = SmallTree /\ call.igFolder = <<n_ig2>>
  /\ \E i \in 1..Len(call.outcome.value.results) :
       call.outcome.value.results[i].category = c_inputPages
  /\ <<n_ig2, n_input, n_pagecontent, <<"N","O","T","E","S",".","M","D">>>>
       \in expectedFiles(<<n_ig2, n_input, n_pagecontent>>, <<<<".","m","d">>>>, TRUE)
  /\ <<n_ig2, n_input, n_pagecontent, <<"B","u","i","l","d">>, <<"t","m","p",".","m","d">>>>
       \notin Range(findFilesInPath(<<n_ig2, n_input, n_pagecontent>>, <<>>, TRUE).files)
  /\ \A i \in 1..Len(call.outcome.value.results) :
       call.outcome.value.results[i].fileName # <<"t","m","p",".","m","d">>

\* the paths of the returned files of a category
resultPaths(c) ==
  { call.outcome.value.results[i].filePath :
      i \in { k \in 1..Len(call.outcome.value.results) :
                call.outcome.value.results[k].category = c } }

\* the pages of the project that can be reached and read and hold the term
matchingPages ==
  { f \in expectedFiles(call.igFolder \o <<n_input, n_pagecontent>>, <<>>, TRUE) :
      /\ nodeAt(disk, f).perm = "ok"
      /\ occurrenceLines(nodeAt(disk, f).lines, call.searchTerm.chars,
                         call.options.caseSensitive, call.options.wholeWords) # {} }

\* C24: a file that cannot be read, an entry that cannot be stat-ed and a
\* directory that cannot be listed do not end a search: the call returns
\* error = null, no result is from such an item, and when the budget is not
\* reached the pages returned are all the readable pages with a match
C24_FailuresAreSkipped ==
  (Completed /\ Searching /\ call.options.categories.kind = "object") =>
    /\ call.outcome.value.error = null
    /\ \A i \in 1..Len(call.outcome.value.results) :
         /\ nodeAt(disk, call.outcome.value.results[i].filePath).perm = "ok"
         /\ \A n \in 1..(Len(call.outcome.value.results[i].filePath) - 1) :
              nodeAt(disk, SubSeq(call.outcome.value.results[i].filePath, 1, n)).perm
                = "ok"
    /\ (c_inputPages \in Range(visited) /\ call.outcome.value.totalMatches < maxResults)
         => resultPaths(c_inputPages) = matchingPages

\* the pages of a project with an unreadable page, an entry without stat and
\* an unlistable directory: the search tried them and returned the pages
\* before and after them
C24_Witness ==
  /\ Completed /\ disk = PlainTree /\ call.igFolder = <<n_ig>>
  /\ call.outcome.value.error = null
  /\ resultPaths(c_inputPages)
       = { <<n_ig, n_input, n_pagecontent, <<"a",".","m","d">>>>,
           <<n_ig, n_input, n_pagecontent, <<"z",".","m","d">>>> }
  /\ \E e \in 1..Len(call.outcome.log) :
       call.outcome.log[e] = [op |-> "read", path |-> <<n_ig, n_input, n_pagecontent, <<"b",".","m","d">>>>]
  /\ \E e \in 1..Len(call.outcome.log) :
       call.outcome.log[e] = [op |-> "readdir", path |-> <<n_ig, n_input, n_pagecontent, <<"s","e","c","r","e","t">>>>]
  /\ \E e \in 1..Len(call.outcome.log) :
       call.outcome.log[e] = [op |-> "stat", path |-> <<n_ig, n_input, n_pagecontent, <<"l","o","s","t",".","m","d">>>>]

\* C25: when performSearch has completed for a folder with a term, flags and
\* categories, the state that getSearchState returns for the folder holds
\* that term and those flags and categories
C25_StateHoldsConfiguration ==
  ( /\ op.name = "performSearch" /\ Completed /\ Searching
    /\ call.options.kind = "object" /\ call.options.categories.kind = "object" )
  => LET got   == getSearchState(this, call.igFolder)
         state == got.self.heap[got.state]
     IN  /\ state.searchTerm = call.searchTerm.chars
         /\ state.caseSensitive = call.options.caseSensitive
         /\ state.wholeWords = call.options.wholeWords
         /\ state.categories = call.options.categories.entries

\* C26: while an IG's status is 'Building' (buildIg has initiated its build
\* and no search has run since), the results stored for the IG's folder
\* hold no entry of the categories outputResources and outputHtml
C26_BuildInvalidatesOutput ==
  \A i \in IgIndexes :
    ( igList[i].buildStatus = "Building" /\ searchStates[igList[i].folder] # 0 )
    => LET state == stateOf(searchStates, heap, igList[i].folder)
       IN  WithoutOutput(state.results) = state.results

\* C27: in the results of one performSearch no two entries have the same
\* absolute file path, whichever categories are enabled
C27_OneResultPerFile ==
  Completed
  => LET results == call.outcome.value.results
     IN  Cardinality({ results[i].filePath : i \in 1..Len(results) }) = Len(results)

\* C28: the relativePath of every result of performSearch(root, ...) is the
\* file's path below root, whatever folder setCurrentIgFolder has set
C28_RelativeToRoot ==
  Completed
  => \A i \in 1..Len(call.outcome.value.results) :
       LET result == call.outcome.value.results[i]
       IN  result.relativePath
             = SubSeq(result.filePath, Len(call.igFolder) + 1, Len(result.filePath))

\* the running processes that were spawned for the IG at index i
runningFor(i) ==
  { p \in ProcessIds : processes[p].state = "running" /\ processes[p].ig = i }

\* C29: at most one IG Publisher process spawned for an IG is running at any
\* time, also when buildIg is clicked again while the IG's build is in its
\* asynchronous setup
C29_OneProcessPerIg ==
  \A i \in IgIndexes : Cardinality(runningFor(i)) <= 1

\* C30: buildProcesses has an entry for index i exactly while the process
\* spawned for the IG at index i is running, and the entry is that process
C30_EntryIffRunning ==
  \A i \in IgIndexes :
    /\ buildProcesses[i] # 0 <=> runningFor(i) # {}
    /\ buildProcesses[i] # 0 => buildProcesses[i] \in runningFor(i)
====
